---- MODULE Spec2Model ----
(***************************************************************************)
(* Campus Smart Parking Finder: the parking-state engine of                *)
(* parking_server.py as a state machine.                                   *)
(*                                                                         *)
(* Every method of ParkingLot runs inside `with self.lock` and nothing     *)
(* outside the class touches occupied or reservations, so each method is   *)
(* one atomic action on its lot.  Time is a discrete clock `now`; a        *)
(* Reservation stores expires_at = now + Timeout and is expired when       *)
(* now > expires_at.                                                       *)
(***************************************************************************)
EXTENDS Integers, Sequences, FiniteSets, TLC

\* ------------------------------------------------------------------ bounds
MaxCap == 3
MaxDelta == 2
MaxTime == 3
Timeout == 1

LotIds == {"A", "B"}
Plates == {"P1", "P2", "P3"}
Deltas == (0 - MaxDelta)..MaxDelta

\* the capacities a configured lot is given: the small ones, and the lot of
\* ten spots of the end-to-end scenarios
Capacities == (0..MaxCap) \cup {10}

\* the deltas tried on a lot of capacity cap: the small ones, +capacity and
\* one below -capacity
DeltasFor(cap) == Deltas \cup {cap, 0 - cap - 1}

NoPlate == "-"

\* the update workers started by ParkingServer.start
NumWorkers == 3
Workers == 1..NumWorkers

\* the sensor lines accepted in SpecUpd; the requests (sensor lines and
\* subscribe calls together) accepted in SpecPub; the largest max_queue_size
MaxSubmits == 2
MaxInputs == 3
MaxQueue == 1

\* the sensor lines accepted in SpecSub
MaxLines == 1

\* the deltas the sensors report in SpecUpd, and those of the end-to-end
\* scenario (a delta of -2 on the lot of ten spots) in SpecPub
SensorDeltas == {0 - 1, 1}
ScenarioDeltas == {0 - 2, 2}

NoHolder == 0

VARIABLES
    \* --- configuration and lots
    lots,           \* ParkingServer.lots: the ids registered from the configuration
    capacity,       \* ParkingLot.capacity, per registered lot
    policy,         \* config['pubsub']['back_pressure_policy']
    max_queue_size, \* config['pubsub']['max_queue_size']
    occupied,       \* ParkingLot.occupied, per registered lot
    reservations,   \* ParkingLot.reservations: plate -> expires_at, per registered lot
    now,            \* datetime.now()
    ret,            \* what the last call on a lot returned
    epochFree,      \* history: a lot's free count when it was last changed by
                    \* anything but reserve (construction, cancel, delta, expiry)
    epochOK,        \* history: the reserve calls that returned OK on the lot since
    \* --- sensor updates
    update_queue,   \* ParkingServer.update_queue: the lines not yet dequeued
    accepted,       \* history: the number of lines the sensor frontend enqueued
    applied,        \* history: per lot, the lines applied to it, in order
    wpc,            \* where each update worker stands in _update_worker
    wcmd,           \* update_cmd of each worker
    old_free,       \* old_free of each worker (line 492)
    new_free,       \* new_free of each worker (line 493)
    before_free,    \* history: the free count update_occupancy read at line 101
    \* --- publish/subscribe
    subs,           \* every Subscriber object created: lot_id, queue, active
    registry,       \* the keys of ParkingServer.subscribers
    next_sub_id,    \* ParkingServer.next_sub_id
    lock,           \* the holder of subscriber_lock (a worker inside _publish_event)
    pending,        \* per worker: what is left of list(self.subscribers.items())
    event,          \* per worker: event_msg
    pubCount,       \* history: the number of _publish_event calls made
    targets,        \* history: the subscriptions the call found active on its lot
    offered,        \* history: the subscriptions the call has offered its event
    dstate,         \* where each subscription's connection handler stands
    inflight,       \* the event each delivery loop has dequeued and is writing
    reply,          \* the response to the last request on the pub/sub channel
    trace,          \* history: per subscription, the events offered to its queue
                    \* and those its delivery loop dequeued, in order
    \* --- connections and locks
    sensor,         \* per sensor connection: where _handle_sensor_client stands,
                    \* and history: the lines it received and the ACKs it sent
    rpc,            \* the RPC connection: both directions of the socket, the
                    \* handler, the RPCClient at its other end, and history
    lot_lock,       \* the holder of each ParkingLot.lock
    wlk,            \* per worker: how far it is in a `with self.lock` block
    \* --- threads and the process
    running,        \* ParkingServer.running
    main,           \* the main thread: inside start ("serving") or returned
                    \* from it, which ends the process ("exited")
    inget,          \* the workers that were inside update_queue.get when
                    \* running was set to false
    snap,           \* the thread inside to_dict: the lot and what it has read
    pconn           \* per pub/sub connection: where _handle_pubsub_client
                    \* stands, its subscription, and history: the frames written

cfgVars == <<lots, capacity, policy, max_queue_size>>
lotState == <<occupied, reservations, epochFree, epochOK>>
lotVars == <<lots, capacity, occupied, reservations, now, ret, epochFree, epochOK>>
queueVars == <<update_queue, accepted, sensor>>
lockVars == <<lot_lock, wlk>>
workerVars == <<wpc, wcmd, old_free, new_free, before_free, applied>>
publishVars == <<lock, pending, event, pubCount, targets, offered>>
brokerVars == <<subs, registry, next_sub_id>>
procVars == <<running, main, inget, snap>>
deliveryVars == <<dstate, inflight, pconn>>
pipeVars == <<policy, max_queue_size, queueVars, workerVars, publishVars,
              brokerVars, deliveryVars, reply, trace, rpc, lockVars, procVars>>
vars == <<lotVars, pipeVars>>

\* ------------------------------------------------------------ Reservation
\* Reservation.is_expired
is_expired(expires_at, t) == t > expires_at

\* a reservation whose expiry is not counted from the time it is made
Reservation_stale(t, timeout_seconds) == timeout_seconds

\* Reservation.__init__: expires_at = created_at + timeout_seconds
Reservation(t, timeout_seconds) == t + timeout_seconds

\* ------------------------------------------------------------- ParkingLot
\* _cleanup_expired_reservations: the plates whose reservation is kept
live_plates(res, t) == {p \in DOMAIN res : ~is_expired(res[p], t)}

\* _cleanup_expired_reservations: the dictionary after the sweep
cleanup_expired(res, t) == [p \in live_plates(res, t) |-> res[p]]

\* get_free line 50, on the swept dictionary
free_of(cap, occ, res) == cap - occ - Cardinality(DOMAIN res)

\* what get_free returns for lot l at the current time
get_free_value(l) ==
    free_of(capacity[l], occupied[l], cleanup_expired(reservations[l], now))

Max(a, b) == IF a >= b THEN a ELSE b
Min(a, b) == IF a <= b THEN a ELSE b

\* a clamp that forgets the floor at 0
clamp_occupied_no_floor(cap, occ, delta) == Min(cap, occ + delta)

\* update_occupancy line 102
clamp_occupied(cap, occ, delta) == Max(0, Min(cap, occ + delta))

\* reserve without its duplicate check
reserve_status_no_exists(cap, occ, res, p) ==
    IF free_of(cap, occ, res) <= 0 THEN "FULL" ELSE "OK"

\* reserve testing for FULL before EXISTS
reserve_status_full_first(cap, occ, res, p) ==
    IF free_of(cap, occ, res) <= 0 THEN "FULL"
    ELSE IF p \in DOMAIN res THEN "EXISTS"
    ELSE "OK"

\* reserve admitting a plate when no spot is free
reserve_status_off_by_one(cap, occ, res, p) ==
    IF p \in DOMAIN res THEN "EXISTS"
    ELSE IF free_of(cap, occ, res) < 0 THEN "FULL"
    ELSE "OK"

\* reserve lines 69-82: the outcome, res being the dictionary after the sweep
reserve_status(cap, occ, res, p) ==
    IF p \in DOMAIN res THEN "EXISTS"
    ELSE IF free_of(cap, occ, res) <= 0 THEN "FULL"
    ELSE "OK"

\* reserve line 75: the dictionary after the call
reserve_dict(res, p, st, t) ==
    IF st = "OK"
    THEN [q \in DOMAIN res \cup {p} |->
            IF q = p THEN Reservation(t, Timeout) ELSE res[q]]
    ELSE res

\* cancel lines 87-96: the outcome; the dictionary is not swept first
cancel_status(res, p) == IF p \in DOMAIN res THEN "OK" ELSE "NOT_FOUND"

\* a cancel that drops every reservation of the lot
cancel_dict_clear(res, p) == IF p \in DOMAIN res THEN <<>> ELSE res

\* cancel line 88: the dictionary after the call
cancel_dict(res, p) == [q \in DOMAIN res \ {p} |-> res[q]]

\* the response of the last call on a lot; `old` is the free count the call
\* read before it changed anything (reserve line 72, update_occupancy line 101)
Resp(op, l, p, d, status, old, free, occ) ==
    [op |-> op, lot |-> l, plate |-> p, delta |-> d,
     status |-> status, old |-> old, free |-> free, occ |-> occ]

\* history bookkeeping: a new epoch for lot l, starting with free count f
NewEpoch(l, f) ==
    /\ epochFree' = [epochFree EXCEPT ![l] = f]
    /\ epochOK' = [epochOK EXCEPT ![l] = 0]

\* ParkingLot.get_free: its effect on the lot
get_free(l) ==
    /\ reservations' = [reservations EXCEPT ![l] = cleanup_expired(@, now)]
    /\ UNCHANGED <<occupied, epochFree, epochOK>>

\* ParkingLot.reserve: its effect on the lot
reserve(l, p) ==
    LET res == cleanup_expired(reservations[l], now)
        st  == reserve_status(capacity[l], occupied[l], res, p)
    IN  /\ reservations' = [reservations EXCEPT ![l] = reserve_dict(res, p, st, now)]
        /\ epochOK' = [epochOK EXCEPT ![l] = IF st = "OK" THEN @ + 1 ELSE @]
        /\ UNCHANGED <<occupied, epochFree>>

\* ParkingLot.cancel: its effect on the lot
cancel(l, p) ==
    LET res == reservations[l]
        new == cancel_dict(res, p)
    IN  /\ reservations' = [reservations EXCEPT ![l] = new]
        /\ IF cancel_status(res, p) = "OK"
           THEN NewEpoch(l, free_of(capacity[l], occupied[l], cleanup_expired(new, now)))
           ELSE UNCHANGED <<epochFree, epochOK>>
        /\ UNCHANGED occupied

\* ParkingLot.update_occupancy: its effect on the lot
update_occupancy(l, delta) ==
    LET res == cleanup_expired(reservations[l], now)
        occ == clamp_occupied(capacity[l], occupied[l], delta)
    IN  /\ reservations' = [reservations EXCEPT ![l] = res]
        /\ occupied' = [occupied EXCEPT ![l] = occ]
        /\ NewEpoch(l, free_of(capacity[l], occ, res))

\* ------------------------------------------------------- ParkingLot.lock
\* one lock shared by every lot
lock_of_global(l) == CHOOSE k \in lots : TRUE

\* line 44: every ParkingLot has a lock of its own
lock_of(l) == l

\* a lot whose methods run without taking its lock
lot_idle_always(l) == TRUE

\* nobody is inside a `with self.lock` block of lot l
lot_idle(l) == lot_lock[lock_of(l)] = NoHolder

\* a worker that is taken to hold no lot lock, whatever it holds
holds_lot_never(w) == FALSE

\* worker w is inside a `with self.lock` block of some lot (lines 48, 100)
holds_lot(w) == \E l \in lots : lot_lock[l] = w

\* a method of lot l run by worker w: either the whole `with self.lock` block
\* in one step (the lock must be free), or its body after the worker took
\* the lock in a step of its own (LotAcquire)
in_lot(w, l) ==
    \/ /\ wlk[w] = "none"
       /\ lot_idle(l)
       /\ UNCHANGED lockVars
    \/ /\ wlk[w] = "held"
       /\ lot_lock[lock_of(l)] = w
       /\ wlk' = [wlk EXCEPT ![w] = "done"]
       /\ UNCHANGED lot_lock

\* the locals of a thread inside to_dict (lines 116-122): the lot, and the
\* occupied it has put in the dictionary; NoSnap when no thread is inside
Snap(l, occ) == [lot |-> l, occ |-> occ]
NoSnap == Snap("-", 0)

\* ------------------------------------------------- calls from the frontends
\* a get_free that publishes the count it returns
CallGetFree_publishes(l) ==
    /\ l \in lots
    /\ lot_idle(l)
    /\ get_free(l)
    /\ ret' = Resp("get_free", l, NoPlate, 0, "", 0, get_free_value(l), occupied[l])
    /\ pubCount' = pubCount + 1
    /\ UNCHANGED <<lots, capacity, now, policy, max_queue_size, queueVars,
                   workerVars, lock, pending, event, targets, offered,
                   brokerVars, deliveryVars, reply, trace, rpc, lockVars,
                   procVars>>

\* AVAIL / getAvailability
CallGetFree(l) ==
    /\ l \in lots
    /\ lot_idle(l)
    /\ get_free(l)
    /\ ret' = Resp("get_free", l, NoPlate, 0, "", 0, get_free_value(l), occupied[l])
    /\ UNCHANGED <<lots, capacity, now, pipeVars>>

\* LOTS / getLots: to_dict reads occupied and get_free() under the lot's lock
CallToDict(l) ==
    /\ l \in lots
    /\ lot_idle(l)
    /\ get_free(l)
    /\ ret' = Resp("to_dict", l, NoPlate, 0, "", 0, get_free_value(l), occupied[l])
    /\ UNCHANGED <<lots, capacity, now, pipeVars>>

\* a frontend thread, as a holder of a lot's lock
Frontend == NumWorkers + 1

\* to_dict lines 116-120: the thread takes the lot's lock and puts id,
\* capacity and self.occupied in the dictionary
ToDictBegin(l) ==
    /\ l \in lots
    /\ snap = NoSnap
    /\ lot_idle(l)
    /\ lot_lock' = [lot_lock EXCEPT ![lock_of(l)] = Frontend]
    /\ snap' = Snap(l, occupied[l])
    /\ UNCHANGED <<lotVars, policy, max_queue_size, queueVars, workerVars,
                   publishVars, brokerVars, deliveryVars, reply, trace, rpc,
                   wlk, running, main, inget>>

\* to_dict lines 121-122: self.get_free() is evaluated (the RLock is entered
\* again by its holder), the dictionary is returned and the lock released
ToDictEnd ==
    /\ snap # NoSnap
    /\ get_free(snap.lot)
    /\ ret' = Resp("to_dict", snap.lot, NoPlate, 0, "", 0,
                   get_free_value(snap.lot), snap.occ)
    /\ lot_lock' = [l \in DOMAIN lot_lock |->
                      IF lot_lock[l] = Frontend THEN NoHolder ELSE lot_lock[l]]
    /\ snap' = NoSnap
    /\ UNCHANGED <<lots, capacity, now, policy, max_queue_size, queueVars,
                   workerVars, publishVars, brokerVars, deliveryVars, reply,
                   trace, rpc, wlk, running, main, inget>>

\* RESERVE / reserve
CallReserve(l, p) ==
    /\ l \in lots
    /\ lot_idle(l)
    /\ reserve(l, p)
    /\ LET res == cleanup_expired(reservations[l], now)
           st  == reserve_status(capacity[l], occupied[l], res, p)
       IN  ret' = Resp("reserve", l, p, 0, st,
                       free_of(capacity[l], occupied[l], res),
                       0, occupied[l])
    /\ UNCHANGED <<lots, capacity, now, pipeVars>>

\* CANCEL / cancel
CallCancel(l, p) ==
    /\ l \in lots
    /\ lot_idle(l)
    /\ cancel(l, p)
    /\ ret' = Resp("cancel", l, p, 0, cancel_status(reservations[l], p),
                   0, 0, occupied[l])
    /\ UNCHANGED <<lots, capacity, now, pipeVars>>

\* update_occupancy called on its own
CallUpdate(l, delta) ==
    /\ l \in lots
    /\ lot_idle(l)
    /\ update_occupancy(l, delta)
    /\ LET res == cleanup_expired(reservations[l], now)
           occ == clamp_occupied(capacity[l], occupied[l], delta)
       IN  ret' = Resp("update_occupancy", l, NoPlate, delta, "",
                       free_of(capacity[l], occupied[l], res),
                       free_of(capacity[l], occ, res), occ)
    /\ UNCHANGED <<lots, capacity, now, pipeVars>>

\* the clock advances; whatever expires at the new time starts a new epoch
Tick ==
    /\ now < MaxTime
    /\ now' = now + 1
    /\ epochFree' = [l \in lots |->
                       free_of(capacity[l], occupied[l],
                               cleanup_expired(reservations[l], now + 1))]
    /\ epochOK' = [l \in lots |-> 0]
    /\ UNCHANGED <<lots, capacity, occupied, reservations, ret, pipeVars>>

\* ------------------------------------------------------- sensor frontend
\* a line of the sensor protocol: UPDATE <lot> <int> is kind "UPDATE"; a third
\* word that is no integer is "NONINT"; a wrong verb or word count is "BAD"
Line(kind, l, d, n) == [kind |-> kind, lot |-> l, delta |-> d, seq |-> n]
NoLine == Line("-", "-", 0, 0)

\* the sensor connections that are followed
SensorConns == {1, 2}

\* _handle_sensor_client on one connection: pc is "recv" (waiting for a line)
\* or "ack" (the line is enqueued, the ACK not yet written); lines and acks
\* are history
SensorState(pc, lines, acks) == [pc |-> pc, lines |-> lines, acks |-> acks]

\* _handle_sensor_client lines 467-473: any non-empty line is enqueued and
\* ACKed; the whole iteration in one step, on connection 1
SensorLine(kind, l, d) ==
    /\ sensor[1].pc = "recv"
    /\ accepted' = accepted + 1
    /\ update_queue' = Append(update_queue, Line(kind, l, d, accepted + 1))
    /\ sensor' = [sensor EXCEPT ![1] =
                    SensorState("recv",
                                Append(@.lines, Line(kind, l, d, accepted + 1)),
                                Append(@.acks, accepted + 1))]
    /\ UNCHANGED <<lotVars, policy, max_queue_size, rpc, procVars, lockVars, reply, trace,
                   workerVars, publishVars, brokerVars, deliveryVars>>

\* lines 468-472: the next line of connection c; an empty one is skipped
\* (line 470), any other is put on update_queue, which has no size limit
SensorRecv(c, kind, l, d) ==
    /\ sensor[c].pc = "recv"
    /\ IF kind = "EMPTY"
       THEN UNCHANGED queueVars
       ELSE /\ accepted' = accepted + 1
            /\ update_queue' = Append(update_queue, Line(kind, l, d, accepted + 1))
            /\ sensor' = [sensor EXCEPT ![c] =
                            SensorState("ack",
                                        Append(@.lines, Line(kind, l, d, accepted + 1)),
                                        @.acks)]
    /\ UNCHANGED <<lotVars, policy, max_queue_size, rpc, procVars, lockVars, reply, trace,
                   workerVars, publishVars, brokerVars, deliveryVars>>

\* an ACK that is held back until a worker has taken the line off the queue
\* and is done with it
SensorAck_when_processed(c) ==
    /\ sensor[c].pc = "ack"
    /\ LET n == sensor[c].lines[Len(sensor[c].lines)].seq
       IN  /\ \A i \in 1..Len(update_queue) : update_queue[i].seq # n
           /\ \A w \in Workers : wcmd[w].seq # n
    /\ sensor' = [sensor EXCEPT ![c] =
                    SensorState("recv", @.lines,
                                Append(@.acks, @.lines[Len(@.lines)].seq))]
    /\ UNCHANGED <<lotVars, policy, max_queue_size, rpc, procVars, lockVars, reply, trace,
                   update_queue, accepted, workerVars, publishVars, brokerVars,
                   deliveryVars>>

\* line 473: ACK is written for the line just enqueued
SensorAck(c) ==
    /\ sensor[c].pc = "ack"
    /\ sensor' = [sensor EXCEPT ![c] =
                    SensorState("recv", @.lines,
                                Append(@.acks, @.lines[Len(@.lines)].seq))]
    /\ UNCHANGED <<lotVars, policy, max_queue_size, rpc, procVars, lockVars, reply, trace,
                   update_queue, accepted, workerVars, publishVars, brokerVars,
                   deliveryVars>>

\* ---------------------------------------------------------- _update_worker
\* line 487 and line 491: the line is an UPDATE for a registered lot
well_formed(cmd) == cmd.kind = "UPDATE" /\ cmd.lot \in lots

\* lines 482-484: worker w is inside update_queue.get, or on its way into
\* it: it is between two lines and passed the test of `while self.running`.
\* inget holds the workers that passed the test before running became false
in_get(w) == wpc[w] = "idle" /\ (running \/ w \in inget)

\* a get that hands out the oldest line and loses the one behind it
Dequeue_loses(w) ==
    /\ in_get(w)
    /\ \A v \in Workers : v < w => ~in_get(v)
    /\ update_queue # <<>>
    /\ inget' = inget \ {w}
    /\ wcmd' = [wcmd EXCEPT ![w] = Head(update_queue)]
    /\ update_queue' = IF Len(update_queue) > 1 THEN Tail(Tail(update_queue))
                                                ELSE <<>>
    /\ wpc' = [wpc EXCEPT ![w] = "got"]
    /\ UNCHANGED <<lotVars, policy, max_queue_size, rpc, running, main, snap, lockVars,
                   reply, trace, accepted, sensor, old_free, new_free,
                   before_free, applied, publishVars, brokerVars,
                   deliveryVars>>

\* line 484: update_queue.get hands the oldest line to a waiting worker.  The
\* workers run the same code and a waiting worker holds no data, so which of
\* them is woken makes no difference: the lowest-numbered one is taken
Dequeue(w) ==
    /\ in_get(w)
    /\ \A v \in Workers : v < w => ~in_get(v)
    /\ update_queue # <<>>
    /\ inget' = inget \ {w}
    /\ wcmd' = [wcmd EXCEPT ![w] = Head(update_queue)]
    /\ update_queue' = Tail(update_queue)
    /\ wpc' = [wpc EXCEPT ![w] = "got"]
    /\ UNCHANGED <<lotVars, policy, max_queue_size, rpc, running, main, snap,
                   lockVars, reply, trace, accepted, sensor,
                   old_free, new_free,
                   before_free, applied, publishVars, brokerVars,
                   deliveryVars>>

\* a worker thread that ends on a line it cannot apply
WorkerDiscard_dies(w) ==
    /\ wpc[w] = "got"
    /\ ~well_formed(wcmd[w])
    /\ wpc' = [wpc EXCEPT ![w] = "dead"]
    /\ UNCHANGED <<lotVars, policy, max_queue_size, rpc, procVars, lockVars, reply, trace,
                   queueVars, wcmd, old_free, new_free, before_free, applied,
                   publishVars, brokerVars, deliveryVars>>

\* lines 485-499 and 504-505: a line that is no UPDATE, whose delta is no
\* integer (int() raises, caught at 504) or whose lot is unknown is dropped
WorkerDiscard(w) ==
    /\ wpc[w] = "got"
    /\ ~well_formed(wcmd[w])
    /\ wpc' = [wpc EXCEPT ![w] = "idle"]
    /\ wcmd' = [wcmd EXCEPT ![w] = NoLine]
    /\ UNCHANGED <<lotVars, policy, max_queue_size, rpc, procVars, lockVars, reply, trace, queueVars, old_free, new_free,
                   before_free, applied, publishVars, brokerVars,
                   deliveryVars>>

\* line 492: old_free = self.lots[lot_id].get_free()
WorkerGetFree(w) ==
    /\ wpc[w] = "got"
    /\ well_formed(wcmd[w])
    /\ in_lot(w, wcmd[w].lot)
    /\ get_free(wcmd[w].lot)
    /\ old_free' = [old_free EXCEPT ![w] = get_free_value(wcmd[w].lot)]
    /\ wpc' = [wpc EXCEPT ![w] = "read"]
    /\ UNCHANGED <<lots, capacity, now, ret, policy, max_queue_size, rpc, procVars, reply,
                   trace, queueVars,
                   wcmd, new_free, before_free, applied, publishVars,
                   brokerVars, deliveryVars>>

\* line 493: new_free = self.lots[lot_id].update_occupancy(delta)
WorkerUpdate(w) ==
    /\ wpc[w] = "read"
    /\ in_lot(w, wcmd[w].lot)
    /\ LET l   == wcmd[w].lot
           res == cleanup_expired(reservations[l], now)
           occ == clamp_occupied(capacity[l], occupied[l], wcmd[w].delta)
       IN  /\ update_occupancy(l, wcmd[w].delta)
           /\ before_free' = [before_free EXCEPT ![w] = get_free_value(l)]
           /\ new_free' = [new_free EXCEPT ![w] = free_of(capacity[l], occ, res)]
           /\ applied' = [applied EXCEPT ![l] = Append(@, wcmd[w].seq)]
    /\ wpc' = [wpc EXCEPT ![w] = "applied"]
    /\ UNCHANGED <<lots, capacity, now, ret, policy, max_queue_size, rpc, procVars, reply,
                   trace, queueVars,
                   wcmd, old_free, publishVars, brokerVars, deliveryVars>>

\* lines 48 and 100: the worker enters the `with self.lock` block of get_free
\* (line 492) or of update_occupancy (line 493), waiting while another thread
\* holds that lot's lock
LotAcquire(w) ==
    /\ \/ wpc[w] = "got" /\ well_formed(wcmd[w])
       \/ wpc[w] = "read"
    /\ wlk[w] = "none"
    /\ lot_idle(wcmd[w].lot)
    /\ lot_lock' = [lot_lock EXCEPT ![lock_of(wcmd[w].lot)] = w]
    /\ wlk' = [wlk EXCEPT ![w] = "held"]
    /\ UNCHANGED <<lotVars, policy, max_queue_size, rpc, procVars, reply, trace, queueVars,
                   workerVars, publishVars, brokerVars, deliveryVars>>

\* the end of the `with self.lock` block: the method returns
LotRelease(w) ==
    /\ wlk[w] = "done"
    /\ lot_lock' = [l \in DOMAIN lot_lock |->
                      IF lot_lock[l] = w THEN NoHolder ELSE lot_lock[l]]
    /\ wlk' = [wlk EXCEPT ![w] = "none"]
    /\ UNCHANGED <<lotVars, policy, max_queue_size, rpc, procVars, reply, trace, queueVars,
                   workerVars, publishVars, brokerVars, deliveryVars>>

\* line 496: the test that decides whether _publish_event is called
free_changed(old, new) == old # new

\* line 482: the iteration ends and the worker waits in update_queue.get again
worker_reset(w) ==
    /\ wpc' = [wpc EXCEPT ![w] = "idle"]
    /\ wcmd' = [wcmd EXCEPT ![w] = NoLine]
    /\ old_free' = [old_free EXCEPT ![w] = 0]
    /\ new_free' = [new_free EXCEPT ![w] = 0]
    /\ before_free' = [before_free EXCEPT ![w] = 0]

\* line 496 false: nothing is published
WorkerSkip(w) ==
    /\ wpc[w] = "applied"
    /\ ~holds_lot(w)
    /\ ~free_changed(old_free[w], new_free[w])
    /\ worker_reset(w)
    /\ UNCHANGED <<lotVars, policy, max_queue_size, rpc, procVars, lockVars, reply, trace, queueVars, applied,
                   publishVars, brokerVars, deliveryVars>>

\* the event record of line 651; n numbers the _publish_event calls
Event(l, free, t, n) == [lot |-> l, free |-> free, ts |-> t, n |-> n]
NoEvent == Event("-", 0, 0, 0)

\* the registered ids in the order of the dictionary (insertion order)
RECURSIVE SortedIds(_)
SortedIds(S) ==
    IF S = {} THEN <<>>
    ELSE LET m == CHOOSE x \in S : \A y \in S : x <= y
         IN  <<m>> \o SortedIds(S \ {m})

\* a filter that forgets to compare the lot
matches_any_lot(sub, l) == sub.active

\* line 655: the subscriber is offered the event
matches(sub, l) == sub.lot_id = l /\ sub.active

\* lines 496-497 and 651-654: the worker calls _publish_event, which takes
\* subscriber_lock and copies the registry
WorkerPublish(w) ==
    /\ wpc[w] = "applied"
    /\ ~holds_lot(w)
    /\ free_changed(old_free[w], new_free[w])
    /\ lock = NoHolder
    /\ lock' = w
    /\ pubCount' = pubCount + 1
    /\ event' = [event EXCEPT ![w] = Event(wcmd[w].lot, new_free[w], now, pubCount + 1)]
    /\ pending' = [pending EXCEPT ![w] = SortedIds(registry)]
    /\ targets' = [targets EXCEPT ![w] = {s \in registry : matches(subs[s], wcmd[w].lot)}]
    /\ offered' = [offered EXCEPT ![w] = {}]
    /\ wpc' = [wpc EXCEPT ![w] = "offer"]
    /\ UNCHANGED <<lotVars, policy, max_queue_size, rpc, procVars, lockVars, reply, trace, queueVars, wcmd, old_free,
                   new_free, before_free, applied, brokerVars, deliveryVars>>

\* a put that appends whatever the size of the queue
put_unbounded(q, e) == Append(q, e)

\* Queue.put_nowait: the queue after the call, unchanged when it raises Full
put_nowait(q, e) == IF Len(q) < max_queue_size THEN Append(q, e) ELSE q

\* a put that waits for room whether asked to block or not
put_ready_blocking(q, block) == Len(q) < max_queue_size

\* Queue.put(item, block): the call returns without waiting when block is
\* false (put_nowait, lines 661, 666 and 672) or the queue has room
put_ready(q, block) == ~block \/ Len(q) < max_queue_size

\* a policy test that never evicts, and one that always does
evicts_never(pol) == FALSE
evicts_always(pol) == TRUE

\* line 658: a Full queue has its oldest event evicted under drop_oldest
evicts(pol) == pol = "drop_oldest"

\* history entries of trace: the offer of event n to a queue is over (lines
\* 656-675 for one subscriber), the delivery loop dequeued event n
Offered(e) == <<"offer", e.n>>
Taken(e) == <<"take", e.n>>

\* lines 655-675: the next subscriber of the copy; a put_nowait that raises
\* Full is retried after an eviction under drop_oldest and given up otherwise
PublishOffer(w) ==
    /\ wpc[w] = "offer"
    /\ pending[w] # <<>>
    /\ LET s == Head(pending[w])
           q == subs[s].queue
       IN  IF matches(subs[s], event[w].lot)
           THEN /\ put_ready(q, FALSE)
                /\ offered' = [offered EXCEPT ![w] = @ \cup {s}]
                /\ subs' = [subs EXCEPT ![s].queue = put_nowait(q, event[w])]
                /\ IF Len(q) >= max_queue_size /\ evicts(policy)
                   THEN /\ wpc' = [wpc EXCEPT ![w] = "evict"]
                        /\ UNCHANGED <<pending, trace>>
                   ELSE /\ pending' = [pending EXCEPT ![w] = Tail(@)]
                        /\ trace' = [trace EXCEPT ![s] = Append(@, Offered(event[w]))]
                        /\ UNCHANGED wpc
           ELSE /\ pending' = [pending EXCEPT ![w] = Tail(@)]
                /\ UNCHANGED <<offered, subs, wpc, trace>>
    /\ UNCHANGED <<lotVars, policy, max_queue_size, rpc, procVars, lockVars, reply, queueVars, wcmd, old_free,
                   new_free, before_free, applied, lock, event,
                   pubCount, targets, registry, next_sub_id, deliveryVars>>

\* lines 664-669: get_nowait, then put_nowait; an Empty raised by get_nowait
\* (the delivery loop took the last event meanwhile) is swallowed at 668
PublishEvict(w) ==
    /\ wpc[w] = "evict"
    /\ LET s == Head(pending[w])
           q == subs[s].queue
       IN  /\ subs' = [subs EXCEPT ![s].queue =
                         IF q = <<>> THEN q ELSE put_nowait(Tail(q), event[w])]
           /\ trace' = [trace EXCEPT ![s] = Append(@, Offered(event[w]))]
    /\ pending' = [pending EXCEPT ![w] = Tail(@)]
    /\ wpc' = [wpc EXCEPT ![w] = "offer"]
    /\ UNCHANGED <<lotVars, policy, max_queue_size, rpc, procVars, lockVars, reply, queueVars, wcmd, old_free,
                   new_free, before_free, applied, lock, event,
                   pubCount, targets, offered, registry, next_sub_id, deliveryVars>>

\* the end of _publish_event: subscriber_lock is released
PublishReturn(w) ==
    /\ wpc[w] = "offer"
    /\ pending[w] = <<>>
    /\ lock' = NoHolder
    /\ worker_reset(w)
    /\ event' = [event EXCEPT ![w] = NoEvent]
    /\ targets' = [targets EXCEPT ![w] = {}]
    /\ offered' = [offered EXCEPT ![w] = {}]
    /\ UNCHANGED <<lotVars, policy, max_queue_size, rpc, procVars, lockVars, reply, trace, queueVars, applied, pending,
                   pubCount, brokerVars, deliveryVars>>

\* --------------------------------------------------------- pub/sub control
\* Subscriber.__init__
Subscriber(id, l) == [sub_id |-> id, lot_id |-> l, queue |-> <<>>, active |-> TRUE]

\* a response of _process_pubsub_request: result is a subscription id (kind
\* "int", num), a boolean (kind "bool", flag) or None (kind "null"); handler is
\* what the connection handler does after it: "read" the next request,
\* "deliver" events, or "closed"
NoError == "null"
Reply(method, kind, num, flag, error, next) ==
    [method |-> method, kind |-> kind, num |-> num, flag |-> flag,
     error |-> error, handler |-> next]

\* a handler that goes back to reading requests after every response it sent
handler_next_reads(method, error, sent) == IF sent THEN "read" ELSE "closed"

\* _handle_pubsub_client lines 556-569: a failed sendall ends the handler; a
\* subscribe answered without error turns it into the delivery loop; after
\* anything else it reads the next request
handler_next(method, error, sent) ==
    IF ~sent THEN "closed"
    ELSE IF method = "subscribe" /\ error = NoError THEN "deliver"
    ELSE "read"

\* a check that takes every lot id for a registered one
lot_known_any(l) == TRUE

\* line 583: lot_id in self.lots
lot_known(l) == l \in lots

\* a counter that stays where it is
next_id_stuck(n) == n

\* line 589: self.next_sub_id += 1
next_id(n) == n + 1

\* _process_pubsub_request subscribe, lines 579-596, and the response of
\* lines 556-563: sent, the handler enters _handle_subscription_events; a
\* failed sendall ends the handler (line 566) with the subscription registered
Subscribe(l, sent) ==
    /\ lot_known(l)
    /\ lock = NoHolder
    /\ subs' = Append(subs, Subscriber(next_sub_id, l))
    /\ registry' = registry \cup {next_sub_id}
    /\ next_sub_id' = next_id(next_sub_id)
    /\ reply' = Reply("subscribe", "int", next_sub_id, FALSE, NoError,
                      handler_next("subscribe", NoError, sent))
    /\ dstate' = Append(dstate, IF sent THEN "start" ELSE "dead")
    /\ inflight' = Append(inflight, NoEvent)
    /\ trace' = Append(trace, <<>>)
    /\ UNCHANGED pconn
    /\ UNCHANGED <<lotVars, policy, max_queue_size, rpc, procVars, lockVars, queueVars, workerVars,
                   publishVars>>

\* lines 583-584 and 615-616: an unknown lot raises ValueError, which becomes
\* an error response; the handler goes on reading (line 561 is false)
SubscribeUnknown(l, sent) ==
    /\ ~lot_known(l)
    /\ reply' = Reply("subscribe", "null", 0, FALSE, "Unknown lot",
                      handler_next("subscribe", "Unknown lot", sent))
    /\ UNCHANGED <<lotVars, policy, max_queue_size, rpc, procVars, lockVars, queueVars, workerVars,
                   publishVars, brokerVars, deliveryVars, trace>>

\* a removal that leaves the subscription where it is
remove_sub_keep(id) == UNCHANGED <<subs, registry>>

\* lines 603-606 and 644-647: the subscription is marked inactive and removed
remove_sub(id) ==
    /\ subs' = [subs EXCEPT ![id].active = FALSE]
    /\ registry' = registry \ {id}

\* _process_pubsub_request unsubscribe, lines 598-608, from another connection
Unsubscribe(id) ==
    /\ lock = NoHolder
    /\ id \in registry
    /\ remove_sub(id)
    /\ reply' = Reply("unsubscribe", "bool", 0, TRUE, NoError,
                      handler_next("unsubscribe", NoError, TRUE))
    /\ UNCHANGED <<lotVars, policy, max_queue_size, rpc, procVars, lockVars, queueVars, workerVars,
                   publishVars, next_sub_id, deliveryVars, trace>>

\* lines 603-604 and 609-610: the id is not in the registry
UnsubscribeUnknown(id) ==
    /\ lock = NoHolder
    /\ id \notin registry
    /\ reply' = Reply("unsubscribe", "bool", 0, FALSE, "Unknown subscription",
                      handler_next("unsubscribe", "Unknown subscription", TRUE))
    /\ UNCHANGED <<lotVars, policy, max_queue_size, rpc, procVars, lockVars, queueVars, workerVars,
                   publishVars, brokerVars, deliveryVars, trace>>

\* ------------------------------------------------------ pub/sub connections
\* the pub/sub connections that are followed
PubConns == {1, 2}

\* _handle_pubsub_client on one connection: pc is "read" (waiting for a
\* request), "respond" (a subscribe was processed, its response not yet
\* written), "deliver" (inside _handle_subscription_events) or "closed"; sub
\* is the subscription the connection created, 0 for none; frames is history
PubConn(pc, sub, frames) == [pc |-> pc, sub |-> sub, frames |-> frames]

\* the frames on the wire: the response to a subscribe that succeeded, any
\* other response, an event
SubscribedFrame(id) == <<"subscribed", id>>
ResponseFrame == <<"response", 0>>
EventFrame(e) == <<"event", e.n>>

\* the connection that created subscription s writes a frame
owner_writes(s, frame) ==
    [c \in DOMAIN pconn |->
       IF pconn[c].sub = s
       THEN [pconn[c] EXCEPT !.frames = Append(@, frame)]
       ELSE pconn[c]]

\* lines 563 and 568-569: _handle_subscription_events has returned, the
\* handler breaks out of its loop and closes the connection
owner_closes(s) ==
    [c \in DOMAIN pconn |->
       IF pconn[c].sub = s THEN [pconn[c] EXCEPT !.pc = "closed"] ELSE pconn[c]]

\* ----------------------------------------------- _handle_subscription_events
\* lines 621-623: the subscriber is looked up; gone already, the handler returns
DeliveryStart(s) ==
    /\ dstate[s] = "start"
    /\ dstate' = [dstate EXCEPT ![s] = IF running /\ s \in registry THEN "get" ELSE "cleanup"]
    /\ UNCHANGED <<lotVars, policy, max_queue_size, rpc, procVars, lockVars, reply, trace, queueVars, workerVars,
                   publishVars, brokerVars, inflight, pconn>>

\* line 628: queue.get returns the oldest event.  The loop is inside
\* queue.get, or between the test of line 625 and queue.get: the test was
\* passed before, possibly before an unsubscribe
DeliveryGet(s) ==
    /\ dstate[s] = "get"
    /\ subs[s].queue # <<>>
    /\ inflight' = [inflight EXCEPT ![s] = Head(subs[s].queue)]
    /\ subs' = [subs EXCEPT ![s].queue = Tail(@)]
    /\ trace' = [trace EXCEPT ![s] = Append(@, Taken(Head(subs[s].queue)))]
    /\ dstate' = [dstate EXCEPT ![s] = "send"]
    /\ UNCHANGED pconn
    /\ UNCHANGED <<lotVars, policy, max_queue_size, rpc, procVars, lockVars, reply, queueVars, workerVars,
                   publishVars, registry, next_sub_id>>

\* lines 628, 635-636 and 625: queue.get times out on the empty queue and the
\* loop finds subscriber.active or self.running false and ends
DeliveryExit(s) ==
    /\ dstate[s] = "get"
    /\ subs[s].queue = <<>>
    /\ ~subs[s].active \/ ~running
    /\ dstate' = [dstate EXCEPT ![s] = "cleanup"]
    /\ UNCHANGED <<lotVars, policy, max_queue_size, rpc, procVars, lockVars, reply, trace, queueVars, workerVars,
                   publishVars, brokerVars, inflight, pconn>>

\* lines 631-638 and 625: the event is written and the loop condition is
\* tested again (the loop goes back into queue.get while the server runs and
\* the subscription is active), or sendall raises and the loop breaks
DeliverySend(s, ok) ==
    /\ dstate[s] = "send"
    /\ inflight' = [inflight EXCEPT ![s] = NoEvent]
    /\ dstate' = [dstate EXCEPT ![s] =
                    IF ok /\ running /\ subs[s].active THEN "get" ELSE "cleanup"]
    /\ pconn' = IF ok THEN owner_writes(s, EventFrame(inflight[s])) ELSE pconn
    /\ UNCHANGED <<lotVars, policy, max_queue_size, rpc, procVars, lockVars, reply, trace, queueVars, workerVars,
                   publishVars, brokerVars>>

\* lines 642-647: the finally block, under subscriber_lock
DeliveryCleanup(s) ==
    /\ dstate[s] = "cleanup"
    /\ lock = NoHolder
    /\ IF s \in registry THEN remove_sub(s) ELSE UNCHANGED <<subs, registry>>
    /\ dstate' = [dstate EXCEPT ![s] = "ended"]
    /\ pconn' = owner_closes(s)
    /\ UNCHANGED <<lotVars, policy, max_queue_size, rpc, procVars, lockVars, reply, trace, queueVars, workerVars,
                   publishVars, next_sub_id, inflight>>

\* ---------------------------------------------------------------- shutdown
\* start, lines 191-196: KeyboardInterrupt reaches the main thread, which
\* sets running to False and returns from start.  The idle workers that
\* passed the test of line 482 before are inside update_queue.get
Shutdown ==
    /\ main = "serving"
    /\ running' = FALSE
    /\ main' = "returned"
    /\ inget' \in SUBSET {w \in Workers : wpc[w] = "idle"}
    /\ UNCHANGED <<lotVars, policy, max_queue_size, queueVars, workerVars,
                   publishVars, brokerVars, deliveryVars, reply, trace, rpc,
                   lockVars, snap>>

\* lines 482-484 and 501-503: a worker between two lines finds running
\* false, at once or after update_queue.get timed out on the empty queue,
\* and its thread ends
WorkerStop(w) ==
    /\ wpc[w] = "idle"
    /\ ~running
    /\ w \notin inget \/ update_queue = <<>>
    /\ wpc' = [wpc EXCEPT ![w] = "stopped"]
    /\ inget' = inget \ {w}
    /\ UNCHANGED <<lotVars, policy, max_queue_size, queueVars, wcmd, old_free,
                   new_free, before_free, applied, publishVars, brokerVars,
                   deliveryVars, reply, trace, rpc, lockVars, running, main,
                   snap>>

\* lines 168-171, 524-529 and 687-689: the main thread has returned from
\* start and the interpreter exits.  The workers and the connection handlers
\* are daemon threads and nothing joins them: each one that has not ended
\* stops where it stands, with what it holds
ProcessExit ==
    /\ main = "returned"
    /\ main' = "exited"
    /\ wpc' = [w \in Workers |-> IF wpc[w] = "stopped" THEN "stopped" ELSE "killed"]
    /\ dstate' = [s \in DOMAIN dstate |->
                    IF dstate[s] \in {"ended", "dead"} THEN dstate[s] ELSE "killed"]
    /\ inget' = {}
    /\ UNCHANGED <<lotVars, policy, max_queue_size, queueVars, wcmd, old_free,
                   new_free, before_free, applied, publishVars, brokerVars,
                   inflight, pconn, reply, trace, rpc, lockVars, running, snap>>

\* ------------------------------------------- _handle_pubsub_client, stepwise
\* lines 552-555 and 579-596: the handler of connection c reads a subscribe
\* request for a registered lot and _process_pubsub_request registers the
\* subscription; the response is not written yet
ConnSubscribe(c, l) ==
    /\ pconn[c].pc = "read"
    /\ lot_known(l)
    /\ lock = NoHolder
    /\ subs' = Append(subs, Subscriber(next_sub_id, l))
    /\ registry' = registry \cup {next_sub_id}
    /\ next_sub_id' = next_id(next_sub_id)
    /\ dstate' = Append(dstate, "pending")
    /\ inflight' = Append(inflight, NoEvent)
    /\ trace' = Append(trace, <<>>)
    /\ pconn' = [pconn EXCEPT ![c] = PubConn("respond", next_sub_id, @.frames)]
    /\ UNCHANGED <<lotVars, policy, max_queue_size, rpc, procVars, lockVars,
                   queueVars, workerVars, publishVars, reply>>

\* lines 556-563: the subscribe response is written and the handler enters
\* _handle_subscription_events, or sendall raises and the handler ends
ConnRespond(c, sent) ==
    /\ pconn[c].pc = "respond"
    /\ LET next == handler_next("subscribe", NoError, sent)
       IN  /\ reply' = Reply("subscribe", "int", pconn[c].sub, FALSE, NoError, next)
           /\ pconn' = [pconn EXCEPT ![c] =
                          PubConn(next, @.sub,
                                  IF sent
                                  THEN Append(@.frames, SubscribedFrame(@.sub))
                                  ELSE @.frames)]
           /\ dstate' = [dstate EXCEPT ![pconn[c].sub] =
                           IF next = "deliver" THEN "start" ELSE "dead"]
    /\ UNCHANGED <<lotVars, policy, max_queue_size, rpc, procVars, lockVars,
                   queueVars, workerVars, publishVars, brokerVars, inflight,
                   trace>>

\* lines 552-561, 583-584 and 615-616: a subscribe for an unknown lot on
\* connection c is answered with an error and the handler reads on
ConnSubscribeUnknown(c, l, sent) ==
    /\ pconn[c].pc = "read"
    /\ ~lot_known(l)
    /\ LET next == handler_next("subscribe", "Unknown lot", sent)
       IN  /\ reply' = Reply("subscribe", "null", 0, FALSE, "Unknown lot", next)
           /\ pconn' = [pconn EXCEPT ![c] =
                          PubConn(next, @.sub,
                                  IF sent THEN Append(@.frames, ResponseFrame)
                                  ELSE @.frames)]
    /\ UNCHANGED <<lotVars, policy, max_queue_size, rpc, procVars, lockVars,
                   queueVars, workerVars, publishVars, brokerVars, dstate,
                   inflight, trace>>

\* lines 552-561 and 598-610: an unsubscribe request on connection c, for a
\* registered id or not, is answered and the handler reads on
ConnUnsubscribe(c, id, sent) ==
    /\ pconn[c].pc = "read"
    /\ lock = NoHolder
    /\ LET known == id \in registry
           error == IF known THEN NoError ELSE "Unknown subscription"
           next  == handler_next("unsubscribe", error, sent)
       IN  /\ IF known THEN remove_sub(id) ELSE UNCHANGED <<subs, registry>>
           /\ reply' = Reply("unsubscribe", "bool", 0, known, error, next)
           /\ pconn' = [pconn EXCEPT ![c] =
                          PubConn(next, @.sub,
                                  IF sent THEN Append(@.frames, ResponseFrame)
                                  ELSE @.frames)]
    /\ UNCHANGED <<lotVars, policy, max_queue_size, rpc, procVars, lockVars,
                   queueVars, workerVars, publishVars, next_sub_id, dstate,
                   inflight, trace>>

\* ------------------------------------------------------------ RPC channel
\* one frame on the RPC connection.  shape tells what json.loads (line 345)
\* makes of the payload: "object" (a JSON object), "nonobject" (valid JSON
\* that is no object, such as a list or a number), "undecodable" (no JSON).
\* args are the elements of the args list; listArgs is false when args is
\* no list (a number)
Request(shape, id, method, args, listArgs) ==
    [shape |-> shape, rpcId |-> id, method |-> method, args |-> args,
     listArgs |-> listArgs]

\* the response dictionary of lines 378-424; result is kind, num, flag as in
\* Reply
RpcResponse(id, kind, num, flag, error) ==
    [rpcId |-> id, kind |-> kind, num |-> num, flag |-> flag, error |-> error]
NoResponse == RpcResponse(0, "null", 0, FALSE, NoError)

\* what the last _call_rpc of the client came to: "result" (returned), "error"
\* (raised on response['error']), "mismatch" (raised on the id), "timeout",
\* "closed" (ConnectionError); id is the rpc_id of that call
Outcome(kind, id, resp) == [kind |-> kind, id |-> id, resp |-> resp]

RpcConn(open, inbox, outbox, next_rpc_id, call, outcome, frames, served, answers) ==
    [open |-> open, inbox |-> inbox, outbox |-> outbox,
     next_rpc_id |-> next_rpc_id, call |-> call, outcome |-> outcome,
     frames |-> frames, served |-> served, answers |-> answers]

\* lines 381, 389 and 402: the number of arguments a method asks for
args_needed(method) == IF method = "getAvailability" THEN 1 ELSE 2

\* an RPC channel on which subscribe and unsubscribe raise nothing
wrong_channel_served(method) ==
    IF method \in {"subscribe", "unsubscribe"} THEN NoError
    ELSE "Unknown method"

\* lines 412-421: the methods that are not served on this channel
wrong_channel(method) ==
    IF method = "subscribe" THEN "Use pub/sub connection for subscribe"
    ELSE IF method = "unsubscribe" THEN "Use pub/sub connection for unsubscribe"
    ELSE "Unknown method"

\* _process_rpc_request lines 375-424: the exception raised for the request,
\* as the text of the error field, or NoError
rpc_error(req) ==
    IF req.method \in {"getAvailability", "reserve", "cancel"}
    THEN IF ~req.listArgs THEN "object has no len()"
         ELSE IF Len(req.args) < args_needed(req.method)
              THEN "Missing arguments"
         ELSE IF req.args[1] \notin lots THEN "Unknown lot"
         ELSE NoError
    ELSE wrong_channel(req.method)

\* a conversion that reports everything but FULL as success
rpc_bool_not_full(result_str) == result_str # "FULL"

\* lines 399 and 409: result = (result_str == "OK")
rpc_bool(result_str) == result_str = "OK"

\* lines 378-424: the response to a request that is a JSON object, computed
\* in the state before the lot method runs
rpc_response(req) ==
    LET err == rpc_error(req)
        l   == req.args[1]
        res == cleanup_expired(reservations[l], now)
    IN  IF err # NoError THEN RpcResponse(req.rpcId, "null", 0, FALSE, err)
        ELSE IF req.method = "getAvailability"
             THEN RpcResponse(req.rpcId, "int", get_free_value(l), FALSE, NoError)
        ELSE IF req.method = "reserve"
             THEN RpcResponse(req.rpcId, "bool", 0,
                       rpc_bool(reserve_status(capacity[l], occupied[l], res,
                                               req.args[2])), NoError)
        ELSE IF req.method = "cancel"
             THEN RpcResponse(req.rpcId, "bool", 0,
                       rpc_bool(cancel_status(reservations[l], req.args[2])),
                       NoError)
        ELSE RpcResponse(req.rpcId, "null", 0, FALSE, NoError)

\* lines 378-410: the lot method the request runs, if any
rpc_effect(req) ==
    IF rpc_error(req) # NoError THEN UNCHANGED lotState
    ELSE IF req.method = "getAvailability"
         THEN lot_idle(req.args[1]) /\ get_free(req.args[1])
    ELSE IF req.method = "reserve"
         THEN lot_idle(req.args[1]) /\ reserve(req.args[1], req.args[2])
    ELSE IF req.method = "cancel"
         THEN lot_idle(req.args[1]) /\ cancel(req.args[1], req.args[2])
    ELSE UNCHANGED lotState

\* RPCClient._call_rpc lines 54-70: the stub numbers the request and writes
\* its frame; any method name and args can be passed
ClientCall(method, args, listArgs) ==
    /\ rpc.call = 0
    /\ rpc' = [rpc EXCEPT
                 !.inbox = Append(@, Request("object", rpc.next_rpc_id, method,
                                             args, listArgs)),
                 !.call = rpc.next_rpc_id,
                 !.next_rpc_id = @ + 1,
                 !.frames = @ + 1]
    /\ UNCHANGED <<lotVars, policy, max_queue_size, procVars, lockVars, reply, trace,
                   queueVars, workerVars, publishVars, brokerVars, deliveryVars>>

\* a peer that writes a frame of its own making: the payload is no JSON
\* object, or no JSON at all
ClientSendRaw(shape) ==
    /\ rpc.call = 0
    /\ shape \in {"nonobject", "undecodable"}
    /\ rpc' = [rpc EXCEPT
                 !.inbox = Append(@, Request(shape, 0, "-", <<>>, FALSE)),
                 !.frames = @ + 1]
    /\ UNCHANGED <<lotVars, policy, max_queue_size, procVars, lockVars, reply, trace,
                   queueVars, workerVars, publishVars, brokerVars, deliveryVars>>

\* _handle_rpc_client lines 331-357, one iteration: the frame is read and
\* decoded (line 345), _process_rpc_request builds the response and the
\* response is written (line 351).  json.loads raising on an undecodable
\* payload, and request.get raising (lines 371-373, outside the try of line
\* 375) on a payload that is no object, both end in the except of line 353:
\* nothing is written and the connection is closed (line 356)
RpcServe ==
    /\ rpc.open
    /\ rpc.inbox # <<>>
    /\ LET req == Head(rpc.inbox)
       IN  IF req.shape # "object"
           THEN /\ rpc' = [rpc EXCEPT !.open = FALSE,
                                      !.inbox = Tail(@),
                                      !.served = Append(@, req.rpcId)]
                /\ UNCHANGED lotState
           ELSE /\ rpc_effect(req)
                /\ rpc' = [rpc EXCEPT
                             !.inbox = Tail(@),
                             !.outbox = Append(@, rpc_response(req)),
                             !.served = Append(@, req.rpcId),
                             !.answers = Append(@, rpc_response(req))]
    /\ UNCHANGED <<lots, capacity, now, ret, policy, max_queue_size, procVars, lockVars,
                   reply, trace, queueVars, workerVars, publishVars, brokerVars,
                   deliveryVars>>

\* _call_rpc lines 73-101: the next response frame is read.  late: the clock
\* test of lines 77 or 88 finds the timeout elapsed and TimeoutError is
\* raised after the frame was consumed
ClientRecv(late) ==
    /\ rpc.call # 0
    /\ rpc.outbox # <<>>
    /\ LET resp == Head(rpc.outbox)
           kind == IF late THEN "timeout"
                   ELSE IF resp.rpcId # rpc.call THEN "mismatch"
                   ELSE IF resp.error # NoError THEN "error"
                   ELSE "result"
       IN  rpc' = [rpc EXCEPT !.outbox = Tail(@),
                              !.call = 0,
                              !.outcome = Outcome(kind, rpc.call, resp)]
    /\ UNCHANGED <<lotVars, policy, max_queue_size, procVars, lockVars, reply, trace,
                   queueVars, workerVars, publishVars, brokerVars, deliveryVars>>

\* _call_rpc lines 103-104: socket.timeout while no response has arrived;
\* the connection stays as it is
ClientTimeout ==
    /\ rpc.call # 0
    /\ rpc.outbox = <<>>
    /\ rpc' = [rpc EXCEPT !.call = 0,
                          !.outcome = Outcome("timeout", rpc.call, NoResponse)]
    /\ UNCHANGED <<lotVars, policy, max_queue_size, procVars, lockVars, reply, trace,
                   queueVars, workerVars, publishVars, brokerVars, deliveryVars>>

\* _call_rpc lines 74-75 and 84-85: the server has closed the connection
ClientClosed ==
    /\ rpc.call # 0
    /\ rpc.outbox = <<>>
    /\ ~rpc.open
    /\ rpc' = [rpc EXCEPT !.call = 0,
                          !.outcome = Outcome("closed", rpc.call, NoResponse)]
    /\ UNCHANGED <<lotVars, policy, max_queue_size, procVars, lockVars, reply, trace,
                   queueVars, workerVars, publishVars, brokerVars, deliveryVars>>

\* ------------------------------------------------------------------- Init
\* ParkingServer.__init__: the lots of the configuration, 0 <= occupied <= capacity
\* ParkingServer.__init__ and start: nothing queued, the workers waiting, no
\* subscription, next_sub_id = 1; RPCClient.__init__: next_rpc_id = 1, and the
\* connection made, with nothing sent on it
InitPipe ==
    /\ update_queue = <<>>
    /\ accepted = 0
    /\ sensor = [c \in SensorConns |-> SensorState("recv", <<>>, <<>>)]
    /\ applied = [l \in lots |-> <<>>]
    /\ wpc = [w \in Workers |-> "idle"]
    /\ wcmd = [w \in Workers |-> NoLine]
    /\ old_free = [w \in Workers |-> 0]
    /\ new_free = [w \in Workers |-> 0]
    /\ before_free = [w \in Workers |-> 0]
    /\ subs = <<>>
    /\ registry = {}
    /\ next_sub_id = 1
    /\ lock = NoHolder
    /\ pending = [w \in Workers |-> <<>>]
    /\ event = [w \in Workers |-> NoEvent]
    /\ pubCount = 0
    /\ targets = [w \in Workers |-> {}]
    /\ offered = [w \in Workers |-> {}]
    /\ dstate = <<>>
    /\ inflight = <<>>
    /\ reply = Reply("-", "null", 0, FALSE, NoError, "read")
    /\ trace = <<>>
    /\ rpc = RpcConn(TRUE, <<>>, <<>>, 1, 0, Outcome("none", 0, NoResponse),
                     0, <<>>, <<>>)
    /\ lot_lock = [l \in lots |-> NoHolder]
    /\ wlk = [w \in Workers |-> "none"]
    /\ running = TRUE
    /\ main = "serving"
    /\ inget = {}
    /\ snap = NoSnap
    /\ pconn = [c \in PubConns |-> PubConn("read", 0, <<>>)]

InitEpoch ==
    /\ epochFree = [l \in lots |-> capacity[l] - occupied[l]]
    /\ epochOK = [l \in lots |-> 0]

\* SpecLot follows one lot in depth: lot A is configured, B is not
InitLots ==
    /\ lots = {"A"}
    /\ capacity \in [lots -> Capacities]
    /\ occupied \in [lots -> 0..10]
    /\ \A l \in lots : occupied[l] <= capacity[l]
    /\ reservations = [l \in lots |-> <<>>]
    /\ now = 0
    /\ ret = Resp("init", "A", NoPlate, 0, "", 0, 0, 0)
    /\ InitEpoch
    /\ InitPipe
    /\ policy = "drop_oldest"
    /\ max_queue_size = 1

NextLot ==
    \/ \E l \in LotIds : CallGetFree(l)
    \/ \E l \in LotIds : CallToDict(l)
    \/ \E l \in LotIds, p \in Plates : CallReserve(l, p)
    \/ \E l \in LotIds, p \in Plates : CallCancel(l, p)
    \/ \E l \in LotIds : \E d \in DeltasFor(IF l \in lots THEN capacity[l] ELSE 0) :
          CallUpdate(l, d)
    \/ Tick

SpecLot == InitLots /\ [][NextLot]_vars

\* ------------------------------------------------------------ update path
\* SpecUpd: the sensor frontend, the three workers and the calls that race
\* with them on one lot; nobody subscribes
InitUpd ==
    /\ lots = {"A"}
    /\ capacity \in [lots -> 1..MaxCap]
    /\ occupied \in [lots -> 0..MaxCap]
    /\ \A l \in lots : occupied[l] <= capacity[l]
    /\ reservations = [l \in lots |-> <<>>]
    /\ now = 0
    /\ ret = Resp("init", "A", NoPlate, 0, "", 0, 0, 0)
    /\ InitEpoch
    /\ InitPipe
    /\ policy = "drop_oldest"
    /\ max_queue_size = 1

NextUpd ==
    \/ \E l \in LotIds, d \in SensorDeltas :
          accepted < MaxSubmits /\ SensorLine("UPDATE", l, d)
    \/ \E k \in {"BAD", "NONINT"} :
          accepted < MaxSubmits /\ SensorLine(k, "A", 1)
    \/ \E w \in Workers : Dequeue(w)
    \/ \E w \in Workers : WorkerDiscard(w)
    \/ \E w \in Workers : WorkerGetFree(w)
    \/ \E w \in Workers : WorkerUpdate(w)
    \/ \E w \in Workers : WorkerSkip(w)
    \/ \E w \in Workers : WorkerPublish(w)
    \/ \E w \in Workers : PublishReturn(w)
    \/ \E l \in LotIds : CallReserve(l, "P1")
    \/ \E l \in LotIds : CallCancel(l, "P1")
    \/ Tick

SpecUpd == InitUpd /\ [][NextUpd]_vars

\* ----------------------------------------------------------- publish path
\* SpecPub: two lots of ten spots with eight occupied, sensor updates for lot
\* A, the workers, subscriptions to either lot and their delivery loops
InitPub ==
    /\ lots = {"A", "B"}
    /\ capacity = [l \in lots |-> 10]
    /\ occupied = [l \in lots |-> 8]
    /\ reservations = [l \in lots |-> <<>>]
    /\ now = 0
    /\ ret = Resp("init", "A", NoPlate, 0, "", 0, 0, 0)
    /\ InitEpoch
    /\ InitPipe
    /\ policy \in {"drop_oldest", "block"}
    /\ max_queue_size \in 1..MaxQueue

\* the requests accepted so far
Inputs == accepted + Len(subs)

NextPub ==
    \/ \E d \in ScenarioDeltas :
          Inputs < MaxInputs /\ SensorLine("UPDATE", "A", d)
    \/ \E w \in Workers : Dequeue(w)
    \/ \E w \in Workers : WorkerGetFree(w)
    \/ \E w \in Workers : WorkerUpdate(w)
    \/ \E w \in Workers : WorkerSkip(w)
    \/ \E w \in Workers : WorkerPublish(w)
    \/ \E w \in Workers : PublishOffer(w)
    \/ \E w \in Workers : PublishEvict(w)
    \/ \E w \in Workers : PublishReturn(w)
    \/ \E l \in LotIds :
          Inputs < MaxInputs /\ Subscribe(l, TRUE)
    \/ \E id \in registry : Unsubscribe(id)
    \/ \E id \in DOMAIN subs : DeliveryStart(id)
    \/ \E id \in DOMAIN subs : DeliveryGet(id)
    \/ \E id \in DOMAIN subs : DeliveryExit(id)
    \/ \E id \in DOMAIN subs, ok \in BOOLEAN : DeliverySend(id, ok)
    \/ \E id \in DOMAIN subs : DeliveryCleanup(id)

SpecPub == InitPub /\ [][NextPub]_vars

\* -------------------------------------------------------- pub/sub channel
\* SpecSub: the requests of the pub/sub channel on a server whose only lot is
\* A: subscribe (B is unknown; the response may fail to be sent), unsubscribe
\* of registered and of unregistered ids, with the publisher and the delivery
\* loops running.  A full queue drops the new event (policy "block").
InitSub ==
    /\ lots = {"A"}
    /\ capacity = [l \in lots |-> 10]
    /\ occupied \in [lots -> {8, 10}]
    /\ reservations = [l \in lots |-> <<>>]
    /\ now = 0
    /\ ret = Resp("init", "A", NoPlate, 0, "", 0, 0, 0)
    /\ InitEpoch
    /\ InitPipe
    /\ policy = "block"
    /\ max_queue_size = 1

NextSub ==
    \/ \E d \in ScenarioDeltas :
          accepted < MaxLines /\ Inputs < MaxInputs /\ SensorLine("UPDATE", "A", d)
    \/ \E w \in Workers : Dequeue(w)
    \/ \E w \in Workers : WorkerGetFree(w)
    \/ \E w \in Workers : WorkerUpdate(w)
    \/ \E w \in Workers : WorkerSkip(w)
    \/ \E w \in Workers : WorkerPublish(w)
    \/ \E w \in Workers : PublishOffer(w)
    \/ \E w \in Workers : PublishReturn(w)
    \/ \E l \in LotIds, sent \in BOOLEAN :
          Inputs < MaxInputs /\ Subscribe(l, sent)
    \/ \E l \in LotIds, sent \in BOOLEAN : SubscribeUnknown(l, sent)
    \/ \E id \in 1..MaxInputs : Unsubscribe(id)
    \/ \E id \in 1..MaxInputs : UnsubscribeUnknown(id)
    \/ \E id \in DOMAIN subs : DeliveryStart(id)
    \/ \E id \in DOMAIN subs : DeliveryGet(id)
    \/ \E id \in DOMAIN subs : DeliveryExit(id)
    \/ \E id \in DOMAIN subs, ok \in BOOLEAN : DeliverySend(id, ok)
    \/ \E id \in DOMAIN subs : DeliveryCleanup(id)

SpecSub == InitSub /\ [][NextSub]_vars

\* ================================================================= claims
LiveCount(l) == Cardinality(live_plates(reservations[l], now))

\* ------------------------------------------- the sensor port and its workers
\* the text a sensor connection can send as one line: an UPDATE for a lot
\* name with an integer delta, a line that is no UPDATE command ("BAD"), an
\* UPDATE whose delta is no integer ("NONINT"), an empty line
SensorInputs ==
    {<<"UPDATE", l, d>> : l \in LotIds, d \in SensorDeltas}
       \cup {<<"BAD", "A", 1>>, <<"NONINT", "A", 1>>, <<"EMPTY", "A", 1>>}

InitSen ==
    /\ lots = {"A"}
    /\ capacity = [l \in lots |-> 10]
    /\ occupied \in [lots -> {8, 10}]
    /\ reservations = [l \in lots |-> <<>>]
    /\ now = 0
    /\ ret = Resp("init", "A", NoPlate, 0, "", 0, 0, 0)
    /\ InitEpoch
    /\ InitPipe
    /\ policy = "drop_oldest"
    /\ max_queue_size = 1

NextSen ==
    \/ \E c \in SensorConns, in \in SensorInputs :
          accepted < MaxSubmits /\ SensorRecv(c, in[1], in[2], in[3])
    \/ \E c \in SensorConns : SensorAck(c)
    \/ \E w \in Workers : Dequeue(w)
    \/ \E w \in Workers : WorkerDiscard(w)
    \/ \E w \in Workers : WorkerGetFree(w)
    \/ \E w \in Workers : WorkerUpdate(w)
    \/ \E w \in Workers : WorkerSkip(w)
    \/ \E w \in Workers : WorkerPublish(w)
    \/ \E w \in Workers : PublishReturn(w)

SpecSen == InitSen /\ [][NextSen]_vars

\* ------------------------------------- the RPC port next to the text port
\* the calls made through the stub: the three lot methods and the two
\* pub/sub methods, with the full argument list, with too few arguments, with
\* an unregistered lot, and with args that is no list
RpcMethods == {"getAvailability", "reserve", "cancel", "subscribe", "unsubscribe"}
RpcArgs == {<<>>, <<"A">>, <<"A", "P1">>, <<"B", "P1">>}

InitRpc ==
    /\ lots = {"A"}
    /\ capacity = [l \in lots |-> 1]
    /\ occupied \in [lots -> {0, 1}]
    /\ reservations = [l \in lots |-> <<>>]
    /\ now = 0
    /\ ret = Resp("init", "A", NoPlate, 0, "", 0, 0, 0)
    /\ InitEpoch
    /\ InitPipe
    /\ policy = "drop_oldest"
    /\ max_queue_size = 1

NextRpc ==
    \/ \E m \in RpcMethods, a \in RpcArgs :
          rpc.frames < MaxSubmits /\ ClientCall(m, a, TRUE)
    \/ \E m \in RpcMethods :
          rpc.frames < MaxSubmits /\ ClientCall(m, <<>>, FALSE)
    \/ \E shape \in {"nonobject", "undecodable"} :
          rpc.frames < MaxSubmits /\ ClientSendRaw(shape)
    \/ RpcServe
    \/ \E late \in BOOLEAN : ClientRecv(late)
    \/ ClientTimeout
    \/ ClientClosed
    \/ \E l \in lots : CallGetFree(l)
    \/ \E l \in lots : CallReserve(l, "P1")
    \/ \E l \in lots : CallCancel(l, "P1")

SpecRpc == InitRpc /\ [][NextRpc]_vars

\* ------------------------------------------- two lots, their locks followed
InitLock ==
    /\ lots = {"A", "B"}
    /\ capacity = [l \in lots |-> 1]
    /\ occupied \in [lots -> {0, 1}]
    /\ reservations = [l \in lots |-> <<>>]
    /\ now = 0
    /\ ret = Resp("init", "A", NoPlate, 0, "", 0, 0, 0)
    /\ InitEpoch
    /\ InitPipe
    /\ policy = "drop_oldest"
    /\ max_queue_size = 1

NextLock ==
    \/ \E l \in lots, d \in SensorDeltas :
          accepted < MaxSubmits /\ SensorLine("UPDATE", l, d)
    \/ \E w \in Workers : Dequeue(w)
    \/ \E w \in Workers : LotAcquire(w)
    \/ \E w \in Workers : WorkerGetFree(w)
    \/ \E w \in Workers : WorkerUpdate(w)
    \/ \E w \in Workers : LotRelease(w)
    \/ \E w \in Workers : WorkerSkip(w)
    \/ \E w \in Workers : WorkerPublish(w)
    \/ \E w \in Workers : PublishReturn(w)
    \/ \E l \in lots : CallGetFree(l)

SpecLock == InitLock /\ [][NextLock]_vars

\* ------------------------------------ one lot, to_dict followed step by step
InitSnap ==
    /\ lots = {"A"}
    /\ capacity = [l \in lots |-> 2]
    /\ occupied \in [lots -> 0..2]
    /\ reservations = [l \in lots |-> <<>>]
    /\ now = 0
    /\ ret = Resp("init", "A", NoPlate, 0, "", 0, 0, 0)
    /\ InitEpoch
    /\ InitPipe
    /\ policy = "drop_oldest"
    /\ max_queue_size = 1

NextSnap ==
    \/ \E l \in lots : ToDictBegin(l)
    \/ ToDictEnd
    \/ \E l \in lots : CallGetFree(l)
    \/ \E l \in lots, p \in {"P1", "P2"} : CallReserve(l, p)
    \/ \E l \in lots, p \in {"P1", "P2"} : CallCancel(l, p)
    \/ \E l \in lots, d \in SensorDeltas : CallUpdate(l, d)
    \/ Tick

SpecSnap == InitSnap /\ [][NextSnap]_vars

\* ----------- a subscriber, a sensor line, and calls through the frontends:
\* get_free and to_dict as the text port makes them, reserve and cancel
\* through the RPC handler
InitQuiet ==
    /\ lots = {"A"}
    /\ capacity = [l \in lots |-> 2]
    /\ occupied = [l \in lots |-> 1]
    /\ reservations = [l \in lots |-> <<>>]
    /\ now = 0
    /\ ret = Resp("init", "A", NoPlate, 0, "", 0, 0, 0)
    /\ InitEpoch
    /\ InitPipe
    /\ policy = "drop_oldest"
    /\ max_queue_size = 1

NextQuiet ==
    \/ Len(subs) < MaxLines /\ Subscribe("A", TRUE)
    \/ \E d \in SensorDeltas :
          accepted < MaxLines /\ SensorLine("UPDATE", "A", d)
    \/ \E w \in Workers : Dequeue(w)
    \/ \E w \in Workers : WorkerGetFree(w)
    \/ \E w \in Workers : WorkerUpdate(w)
    \/ \E w \in Workers : WorkerPublish(w)
    \/ \E w \in Workers : PublishOffer(w)
    \/ \E w \in Workers : PublishReturn(w)
    \/ \E l \in lots : CallGetFree(l)
    \/ \E l \in lots : CallToDict(l)
    \/ \E m \in {"reserve", "cancel"} :
          rpc.frames < MaxLines /\ ClientCall(m, <<"A", "P1">>, TRUE)
    \/ RpcServe
    \/ Tick

SpecQuiet == InitQuiet /\ [][NextQuiet]_vars

\* SpecFair: one sensor connection sends UPDATE lines for lot A, UPDATE lines
\* for the unregistered lot B and lines that are no command, to a server
\* whose three worker threads (lines 168-171) are kept running by the
\* scheduler: a worker that can take its next step (return from
\* update_queue.get, parse, get_free, update_occupancy, publish) takes it
\* eventually
InitFair ==
    /\ lots = {"A"}
    /\ capacity = [l \in lots |-> 10]
    /\ occupied = [l \in lots |-> 8]
    /\ reservations = [l \in lots |-> <<>>]
    /\ now = 0
    /\ ret = Resp("init", "A", NoPlate, 0, "", 0, 0, 0)
    /\ InitEpoch
    /\ InitPipe
    /\ policy = "drop_oldest"
    /\ max_queue_size = 1

NextFair ==
    \/ \E in \in SensorInputs \ {<<"EMPTY", "A", 1>>} :
          accepted < MaxSubmits /\ SensorLine(in[1], in[2], in[3])
    \/ \E w \in Workers : Dequeue(w)
    \/ \E w \in Workers : WorkerDiscard(w)
    \/ \E w \in Workers : WorkerGetFree(w)
    \/ \E w \in Workers : WorkerUpdate(w)
    \/ \E w \in Workers : WorkerSkip(w)
    \/ \E w \in Workers : WorkerPublish(w)
    \/ \E w \in Workers : PublishReturn(w)

FairWorkers ==
    \A w \in Workers :
       /\ WF_vars(Dequeue(w))
       /\ WF_vars(WorkerDiscard(w))
       /\ WF_vars(WorkerGetFree(w))
       /\ WF_vars(WorkerUpdate(w))
       /\ WF_vars(WorkerSkip(w))
       /\ WF_vars(WorkerPublish(w))
       /\ WF_vars(PublishReturn(w))

SpecFair == InitFair /\ [][NextFair]_vars /\ FairWorkers

\* SpecConn: two pub/sub connections, each served by its own handler thread
\* (line 527): subscribe requests for lot A and for the unknown lot B and
\* unsubscribe requests, the responses written or failing, while a sensor
\* update goes through the workers and the delivery loops run.  A full queue
\* drops the new event (policy "block").
InitConn ==
    /\ lots = {"A"}
    /\ capacity = [l \in lots |-> 10]
    /\ occupied = [l \in lots |-> 8]
    /\ reservations = [l \in lots |-> <<>>]
    /\ now = 0
    /\ ret = Resp("init", "A", NoPlate, 0, "", 0, 0, 0)
    /\ InitEpoch
    /\ InitPipe
    /\ policy = "block"
    /\ max_queue_size = 1

\* the responses written on connection c that answer no successful subscribe
Responses(c) ==
    Cardinality({i \in 1..Len(pconn[c].frames) : pconn[c].frames[i] = ResponseFrame})

NextConn ==
    \/ \E d \in ScenarioDeltas : accepted < MaxLines /\ SensorLine("UPDATE", "A", d)
    \/ \E w \in Workers : Dequeue(w)
    \/ \E w \in Workers : WorkerGetFree(w)
    \/ \E w \in Workers : WorkerUpdate(w)
    \/ \E w \in Workers : WorkerPublish(w)
    \/ \E w \in Workers : PublishOffer(w)
    \/ \E w \in Workers : PublishReturn(w)
    \/ \E c \in PubConns, l \in LotIds : ConnSubscribe(c, l)
    \/ \E c \in PubConns, sent \in BOOLEAN : ConnRespond(c, sent)
    \/ \E c \in PubConns, l \in LotIds, sent \in BOOLEAN :
          Responses(c) < MaxLines /\ ConnSubscribeUnknown(c, l, sent)
    \/ \E c \in PubConns, id \in 1..MaxSubmits, sent \in BOOLEAN :
          Responses(c) < MaxLines /\ ConnUnsubscribe(c, id, sent)
    \/ \E id \in DOMAIN subs : DeliveryStart(id)
    \/ \E id \in DOMAIN subs : DeliveryGet(id)
    \/ \E id \in DOMAIN subs : DeliveryExit(id)
    \/ \E id \in DOMAIN subs, ok \in BOOLEAN : DeliverySend(id, ok)
    \/ \E id \in DOMAIN subs : DeliveryCleanup(id)

SpecConn == InitConn /\ [][NextConn]_vars

\* SpecDeliver: the end-to-end scenario of a subscriber on a working
\* connection: connection 1 subscribes to lot A and gets its response, then
\* the sensor reports deltas for A.  The queue of the subscription has room
\* for every event, no send fails and nobody unsubscribes; the worker
\* threads and the connection's handler thread are kept running by the
\* scheduler.
InitDeliver ==
    /\ lots = {"A"}
    /\ capacity = [l \in lots |-> 10]
    /\ occupied = [l \in lots |-> 8]
    /\ reservations = [l \in lots |-> <<>>]
    /\ now = 0
    /\ ret = Resp("init", "A", NoPlate, 0, "", 0, 0, 0)
    /\ InitEpoch
    /\ InitPipe
    /\ policy = "drop_oldest"
    /\ max_queue_size = MaxSubmits

NextDeliver ==
    \/ ConnSubscribe(1, "A")
    \/ ConnRespond(1, TRUE)
    \/ \E d \in ScenarioDeltas :
          /\ accepted < MaxSubmits
          /\ registry # {}
          /\ SensorLine("UPDATE", "A", d)
    \/ \E w \in Workers : Dequeue(w)
    \/ \E w \in Workers : WorkerGetFree(w)
    \/ \E w \in Workers : WorkerUpdate(w)
    \/ \E w \in Workers : WorkerSkip(w)
    \/ \E w \in Workers : WorkerPublish(w)
    \/ \E w \in Workers : PublishOffer(w)
    \/ \E w \in Workers : PublishReturn(w)
    \/ \E id \in DOMAIN subs : DeliveryStart(id)
    \/ \E id \in DOMAIN subs : DeliveryGet(id)
    \/ \E id \in DOMAIN subs : DeliverySend(id, TRUE)

FairDelivery ==
    /\ WF_vars(ConnRespond(1, TRUE))
    /\ \A w \in Workers : WF_vars(PublishOffer(w))
    /\ \A id \in 1..MaxSubmits :
          /\ WF_vars(id \in DOMAIN subs /\ DeliveryStart(id))
          /\ WF_vars(id \in DOMAIN subs /\ DeliveryGet(id))
          /\ WF_vars(id \in DOMAIN subs /\ DeliverySend(id, TRUE))

SpecDeliver == InitDeliver /\ [][NextDeliver]_vars /\ FairWorkers /\ FairDelivery

\* SpecStop: the server is shut down while it works: connection 1 subscribes
\* to lot A, the sensor reports a delta, and at any moment the main thread
\* gets KeyboardInterrupt, returns from start, and the process exits.
InitStop ==
    /\ lots = {"A"}
    /\ capacity = [l \in lots |-> 10]
    /\ occupied \in [lots -> {8, 10}]
    /\ reservations = [l \in lots |-> <<>>]
    /\ now = 0
    /\ ret = Resp("init", "A", NoPlate, 0, "", 0, 0, 0)
    /\ InitEpoch
    /\ InitPipe
    /\ policy = "block"
    /\ max_queue_size = 1

NextStop ==
    \/ running /\ ConnSubscribe(1, "A")
    \/ main # "exited" /\ ConnRespond(1, TRUE)
    \/ \E d \in ScenarioDeltas :
          running /\ accepted < MaxLines /\ SensorLine("UPDATE", "A", d)
    \/ \E w \in Workers : Dequeue(w)
    \/ \E w \in Workers : WorkerGetFree(w)
    \/ \E w \in Workers : WorkerUpdate(w)
    \/ \E w \in Workers : WorkerSkip(w)
    \/ \E w \in Workers : WorkerPublish(w)
    \/ \E w \in Workers : PublishOffer(w)
    \/ \E w \in Workers : PublishReturn(w)
    \/ \E w \in Workers : WorkerStop(w)
    \/ \E id \in DOMAIN subs : DeliveryStart(id)
    \/ \E id \in DOMAIN subs : DeliveryGet(id)
    \/ \E id \in DOMAIN subs : DeliveryExit(id)
    \/ \E id \in DOMAIN subs : DeliverySend(id, TRUE)
    \/ \E id \in DOMAIN subs : DeliveryCleanup(id)
    \/ Shutdown
    \/ ProcessExit

SpecStop == InitStop /\ [][NextStop]_vars

\* ==========================================================================

\* C1: for every lot, in every reachable state, the reported free count is
\* capacity - occupied - (active reservations) and lies in 0..capacity; the
\* same holds of the free count the last get_free, to_dict or
\* update_occupancy call returned.
C1_FreeWithinCapacity ==
    /\ \A l \in lots :
          /\ get_free_value(l) = capacity[l] - occupied[l] - LiveCount(l)
          /\ 0 <= get_free_value(l)
          /\ get_free_value(l) <= capacity[l]
    /\ ret.op \in {"get_free", "to_dict", "update_occupancy"} =>
          /\ 0 <= ret.free
          /\ ret.free <= capacity[ret.lot]

\* C2: update_occupancy(delta) sets occupied to occupied + delta clamped to
\* 0..capacity, so occupied stays within 0..capacity; +capacity at
\* occupied = 0 gives capacity, and a delta below -occupied gives 0.
C2_UpdateClamps ==
    [][\A l \in LotIds : \A d \in DeltasFor(10) \cup DeltasFor(MaxCap) :
         CallUpdate(l, d) =>
           LET sum == occupied[l] + d
           IN  /\ occupied'[l] = IF sum < 0 THEN 0
                                 ELSE IF sum > capacity[l] THEN capacity[l]
                                 ELSE sum
               /\ 0 <= occupied'[l]
               /\ occupied'[l] <= capacity[l]
               /\ (occupied[l] = 0 /\ d = capacity[l]) => occupied'[l] = capacity[l]
               /\ d < 0 - occupied[l] => occupied'[l] = 0
               /\ ret'.occ = occupied'[l]]_vars

\* C2 witness: +capacity was applied to the empty lot of ten spots and filled it
C2_Witness ==
    /\ ret.op = "update_occupancy"
    /\ capacity[ret.lot] = 10
    /\ ret.delta = 10
    /\ ret.old - ret.free = 10
    /\ occupied[ret.lot] = 10

\* C3: a reserve call for a plate that holds an active reservation on the lot
\* returns EXISTS, never OK, and leaves that one reservation as it was.
C3_DuplicateReserveExists ==
    [][\A l \in LotIds, p \in Plates :
         (CallReserve(l, p) /\ p \in live_plates(reservations[l], now)) =>
           /\ ret'.status = "EXISTS"
           /\ p \in DOMAIN reservations'[l]
           /\ reservations'[l][p] = reservations[l][p]
           /\ live_plates(reservations'[l], now') = live_plates(reservations[l], now)]_vars

\* C3 witness: a second reserve for a plate whose reservation is active got EXISTS
C3_Witness ==
    /\ ret.op = "reserve"
    /\ ret.status = "EXISTS"
    /\ ret.plate \in live_plates(reservations[ret.lot], now)

\* C4: once a reservation's TTL has elapsed, every call treats it as absent,
\* also when nothing touched the lot since: get_free does not count it,
\* reserve for its plate does not return EXISTS, cancel returns NOT_FOUND.
C4_ExpiredIsAbsent ==
    [][\A l \in LotIds, p \in Plates :
         (/\ l \in lots
          /\ p \in DOMAIN reservations[l]
          /\ is_expired(reservations[l][p], now)) =>
           /\ CallGetFree(l) =>
                ret'.free = capacity[l] - occupied[l] - LiveCount(l)
           /\ CallReserve(l, p) => ret'.status # "EXISTS"
           /\ CallCancel(l, p) => ret'.status = "NOT_FOUND"]_vars

\* C5: reserve decides, after the sweep, EXISTS (also on a full lot), else
\* FULL when free <= 0, else OK; OK inserts exactly one reservation and
\* lowers free by 1; EXISTS and FULL leave occupied and the active
\* reservations unchanged; a lot with capacity = occupied refuses a new plate.
C5_ReserveDecision ==
    [][\A l \in LotIds, p \in Plates :
         CallReserve(l, p) =>
           LET live == live_plates(reservations[l], now)
               f    == capacity[l] - occupied[l] - Cardinality(live)
           IN  /\ ret'.status = IF p \in live THEN "EXISTS"
                                ELSE IF f <= 0 THEN "FULL"
                                ELSE "OK"
               /\ occupied' = occupied
               /\ ret'.status = "OK" =>
                    /\ DOMAIN reservations'[l] = live \cup {p}
                    /\ p \notin live
                    /\ get_free_value(l)' = f - 1
               /\ ret'.status \in {"EXISTS", "FULL"} =>
                    /\ DOMAIN reservations'[l] = live
                    /\ get_free_value(l)' = f
               /\ \A q \in live : reservations'[l][q] = reservations[l][q]
               /\ (capacity[l] = occupied[l] /\ p \notin live) =>
                    ret'.status = "FULL"]_vars

\* C5 witness: reserve answered EXISTS on a lot with no free spot
C5_Witness ==
    /\ ret.op = "reserve"
    /\ ret.status = "EXISTS"
    /\ get_free_value(ret.lot) <= 0
    /\ ret.plate \in live_plates(reservations[ret.lot], now)

\* C6: while only reserve, get_free and to_dict run on a lot that had k >= 0
\* free spots (no cancel, expiry or delta since), at most k reserve calls
\* have returned OK and occupied + active reservations never exceeds capacity.
C6_AtMostKReserved ==
    \A l \in lots :
       epochFree[l] >= 0 =>
          /\ epochOK[l] <= epochFree[l]
          /\ occupied[l] + LiveCount(l) <= capacity[l]
          /\ get_free_value(l) = epochFree[l] - epochOK[l]

\* C6 witness: two spots were free, two plates got them and a third was refused
C6_Witness ==
    /\ ret.op = "reserve"
    /\ ret.status = "FULL"
    /\ epochFree[ret.lot] = 2
    /\ epochOK[ret.lot] = 2
    /\ ret.plate \notin DOMAIN reservations[ret.lot]

\* C7: cancel of a plate with an active reservation returns OK, removes that
\* reservation only, raises free by 1 and leaves occupied alone; cancel of a
\* plate with no reservation returns NOT_FOUND and changes nothing; cancel
\* right after the reserve that returned OK restores the free count read
\* before that reserve.
C7_CancelContract ==
    [][\A l \in LotIds, p \in Plates :
         CallCancel(l, p) =>
           LET res  == reservations[l]
               live == live_plates(res, now)
           IN  /\ occupied' = occupied
               /\ p \in live =>
                    /\ ret'.status = "OK"
                    /\ DOMAIN reservations'[l] = DOMAIN res \ {p}
                    /\ \A q \in DOMAIN res \ {p} : reservations'[l][q] = res[q]
                    /\ get_free_value(l)' = get_free_value(l) + 1
               /\ p \notin DOMAIN res =>
                    /\ ret'.status = "NOT_FOUND"
                    /\ reservations' = reservations
               /\ (/\ ret.op = "reserve" /\ ret.status = "OK"
                   /\ ret.lot = l /\ ret.plate = p
                   /\ epochOK[l] >= 1) =>
                    /\ ret'.status = "OK"
                    /\ get_free_value(l)' = ret.old]_vars

\* C7 witness: on the lot of ten spots with eight occupied a cancel returned OK
\* and the free count is back at 2
C7_Witness ==
    /\ ret.op = "cancel"
    /\ ret.status = "OK"
    /\ capacity[ret.lot] = 10
    /\ occupied[ret.lot] = 8
    /\ epochFree[ret.lot] = 2
    /\ get_free_value(ret.lot) = 2

\* C8: the updates of one lot are applied in the order in which the sensor
\* frontend enqueued them, whatever the interleaving of the three workers.
C8_AppliedInAcceptanceOrder ==
    \A l \in lots :
       \A i, j \in 1..Len(applied[l]) :
          i < j => applied[l][i] < applied[l][j]

\* C9: a worker calls _publish_event for an applied delta exactly when the
\* lot's free count right after the delta differs from the free count right
\* before it, and does not call it when the delta left free unchanged.
C9_PublishIffFreeChanged ==
    [][\A w \in Workers :
         /\ WorkerPublish(w) => before_free[w] # new_free[w]
         /\ WorkerSkip(w) => before_free[w] = new_free[w]]_vars

\* the number of times event e stands in queue q
Occurrences(q, e) == Cardinality({i \in 1..Len(q) : q[i] = e})

\* C10: one _publish_event(lot, free) call carries the free count the update
\* returned, offers its event once to every subscription that is registered,
\* active and targets the lot, and leaves the queue of every other
\* subscription (another lot, or unsubscribed) as it was.
C10_PublishOffersOncePerTarget ==
    [][\A w \in Workers :
         /\ WorkerPublish(w) =>
              /\ event'[w].lot = wcmd[w].lot
              /\ event'[w].free = new_free[w]
              /\ subs' = subs
         /\ (PublishOffer(w) \/ PublishEvict(w)) =>
              LET s   == Head(pending[w])
                  hit == /\ s \in registry
                         /\ subs[s].active
                         /\ subs[s].lot_id = event[w].lot
              IN  /\ \A t \in DOMAIN subs \ {s} : subs'[t] = subs[t]
                  /\ ~hit => subs'[s] = subs[s]
                  /\ Occurrences(subs'[s].queue, event[w]) <= 1
                  /\ (hit /\ wpc[w] = "offer" /\ Len(subs[s].queue) < max_queue_size) =>
                       subs'[s].queue = Append(subs[s].queue, event[w])
         /\ PublishReturn(w) =>
              /\ offered[w] = {s \in registry :
                                 subs[s].active /\ subs[s].lot_id = event[w].lot}
              /\ subs' = subs]_vars

\* C10 witness: the delta of -2 on lot A (ten spots, eight occupied) has been
\* published: the subscriber of A holds one event carrying free = 4 and the
\* subscriber of B holds none
C10_Witness ==
    \E w \in Workers :
       /\ wpc[w] = "offer"
       /\ pending[w] = <<>>
       /\ wcmd[w].delta = 0 - 2
       /\ event[w].free = 4
       /\ \E s \in offered[w], t \in registry :
             /\ subs[s].queue = <<event[w]>>
             /\ subs[t].lot_id # event[w].lot
             /\ subs[t].queue = <<>>

\* the delivery loop of subscription s has not dequeued anything yet
Stalled(s) == dstate[s] \in {"start", "get"} /\ \A i \in 1..Len(trace[s]) : trace[s][i][1] = "offer"

Numbers(q) == [i \in 1..Len(q) |-> q[i].n]

\* trace t is m offers followed by nothing but dequeues
OffersThenTakes(t, m) ==
    /\ Len(t) >= m
    /\ \A i \in 1..m : t[i][1] = "offer"
    /\ \A i \in (m + 1)..Len(t) : t[i][1] = "take"

C13_NewestIsLast ==
    [][\A w \in Workers :
         (policy = "drop_oldest" /\
            (PublishEvict(w) \/
               (PublishOffer(w) /\ wpc'[w] = "offer"
                  /\ matches(subs[Head(pending[w])], event[w].lot)))) =>
           LET q == subs'[Head(pending[w])].queue
           IN  q # <<>> /\ q[Len(q)] = event[w]]_vars

C15_QueueBounded ==
    \A s \in DOMAIN subs : Len(subs[s].queue) <= max_queue_size

\* C15 witness: a queue is full again while its delivery loop is still
\* writing an event it dequeued
C15_Witness ==
    \E s \in DOMAIN subs :
       /\ Len(subs[s].queue) = max_queue_size
       /\ dstate[s] = "send"
       /\ inflight[s] # NoEvent

\* C16: subscription ids are unique and strictly increasing in the order the
\* subscribe calls are served, and an id is never handed out again, also after
\* its subscription was removed.
C16_SubIdsIncrease ==
    /\ \A i, j \in DOMAIN subs : i < j => subs[i].sub_id < subs[j].sub_id
    /\ \A i \in DOMAIN subs : subs[i].sub_id < next_sub_id
    /\ \A id \in registry : \E i \in DOMAIN subs : subs[i].sub_id = id

\* C16 witness: three subscribe calls were served, the first subscription is
\* removed, and the third got an id above the removed one
C16_Witness ==
    /\ Len(subs) = 3
    /\ subs[1].sub_id \notin registry
    /\ subs[3].sub_id \in registry
    /\ subs[3].sub_id > subs[1].sub_id
    /\ reply.method = "subscribe"
    /\ reply.num = subs[3].sub_id

\* C17: unsubscribe of a registered id marks the subscription inactive,
\* removes it and returns true; unsubscribe of an id that is not registered
\* returns false with a null error and leaves the registry and the id counter
\* unchanged.
C17_UnsubscribeContract ==
    [][\A id \in 1..MaxInputs :
         /\ Unsubscribe(id) =>
              /\ ~subs'[id].active
              /\ id \notin registry'
              /\ reply'.kind = "bool" /\ reply'.flag
              /\ reply'.error = NoError
         /\ UnsubscribeUnknown(id) =>
              /\ reply'.kind = "bool" /\ ~reply'.flag
              /\ reply'.error = NoError
              /\ registry' = registry
              /\ next_sub_id' = next_sub_id]_vars

\* C18: a subscribe for a lot id that is not registered is answered with an
\* error and a null result, adds no Subscriber, leaves next_sub_id unchanged,
\* and the connection handler goes on reading requests; no Subscriber for an
\* unregistered lot is ever created.
C18_UnknownLotRejected ==
    [][/\ \A s \in DOMAIN subs' : subs'[s].lot_id \in lots
       /\ \A l \in LotIds \ lots :
            (\E sent \in BOOLEAN : Subscribe(l, sent) \/ SubscribeUnknown(l, sent)) =>
              /\ reply'.method = "subscribe"
              /\ reply'.kind = "null"
              /\ reply'.error # NoError
              /\ subs' = subs
              /\ registry' = registry
              /\ next_sub_id' = next_sub_id
              /\ (SubscribeUnknown(l, TRUE) => reply'.handler = "read")]_vars

\* C18 witness: with a subscription registered, a subscribe for the unknown
\* lot was just answered with the error, and the handler reads on
C18_Witness ==
    /\ reply.method = "subscribe"
    /\ reply.error = "Unknown lot"
    /\ reply.handler = "read"
    /\ registry # {}
    /\ next_sub_id = Len(subs) + 1

\* C19: a delivery loop whose write failed stops dequeuing, and its cleanup
\* marks the subscription inactive and removes it from the registry without
\* touching any other subscription; from then on the subscription stays out
\* of the registry and nothing is enqueued into it.
C19_DeliveryFailureTearsDown ==
    [][\A s \in DOMAIN subs :
         /\ DeliverySend(s, FALSE) => dstate'[s] = "cleanup"
         /\ dstate[s] = "cleanup" =>
              /\ dstate'[s] \in {"cleanup", "ended"}
              /\ inflight'[s] = inflight[s]
              /\ Len(subs'[s].queue) >= Len(subs[s].queue)
         /\ DeliveryCleanup(s) =>
              /\ s \notin registry'
              /\ ~subs'[s].active
              /\ \A t \in DOMAIN subs \ {s} :
                    subs'[t] = subs[t] /\ (t \in registry' <=> t \in registry)
         /\ dstate[s] = "ended" =>
              /\ subs'[s] = subs[s]
              /\ s \notin registry'
              /\ dstate'[s] = "ended"]_vars

\* C19 witness: the only subscription was never unsubscribed; its loop
\* dequeued an event, failed to write it and tore the subscription down; the
\* publish that follows finds nobody and enqueues nothing
C19_Witness ==
    /\ Len(subs) = 1
    /\ reply.method = "subscribe"
    /\ dstate[1] = "ended"
    /\ 1 \notin registry
    /\ ~subs[1].active
    /\ Len(trace[1]) = 2
    /\ trace[1][2][1] = "take"
    /\ \E w \in Workers :
          /\ wpc[w] = "offer"
          /\ event[w].lot = subs[1].lot_id
          /\ pending[w] = <<>>
          /\ offered[w] = {}

\* C20: once the connection handler that created a subscription has
\* terminated, for whatever reason, the subscription is no longer registered.
C20_SubscriptionDiesWithConnection ==
    \A s \in DOMAIN subs : dstate[s] \in {"ended", "dead"} => s \notin registry

\* the line a worker holds is an UPDATE naming a lot that is not registered
UnknownLotUpdate(cmd) == cmd.kind = "UPDATE" /\ cmd.lot \notin lots

\* C21: an UPDATE for an unregistered lot is discarded by the worker that
\* dequeued it: the step in which the worker is done with the line changes no
\* lot (occupied, reservations, the applied history), publishes no event, and
\* leaves the worker waiting for the next line; no worker ever stops.
C21_UnknownLotDiscarded ==
    /\ [](\A w \in Workers :
            wpc[w] \in {"idle", "got", "read", "applied", "offer", "evict"})
    /\ [][\A w \in Workers :
            (UnknownLotUpdate(wcmd[w]) /\ wpc[w] = "got" /\ wpc'[w] # "got")
               => /\ occupied' = occupied
                  /\ reservations' = reservations
                  /\ applied' = applied
                  /\ pubCount' = pubCount
                  /\ event' = event
                  /\ wpc'[w] = "idle"]_vars

\* the first line accepted named the unregistered lot B and is gone from the
\* queue and from every worker, and the second line, an update of lot A, was
\* applied after it
C21_Witness ==
    /\ \E c \in SensorConns :
          /\ sensor[c].lines # <<>>
          /\ sensor[c].lines[1].seq = 1
          /\ UnknownLotUpdate(sensor[c].lines[1])
    /\ \A i \in 1..Len(update_queue) : update_queue[i].seq # 1
    /\ \A w \in Workers : wcmd[w].seq # 1
    /\ applied["A"] = <<2>>

\* C22: a malformed sensor command (wrong verb, wrong argument count, a delta
\* that is no integer) is rejected by the sensor frontend: every line on the
\* update queue is a well-formed UPDATE with an integer delta.
C22_OnlyWellFormedEnqueued ==
    \A i \in 1..Len(update_queue) : update_queue[i].kind = "UPDATE"

\* C23: on every sensor connection the ACKs written are, in order, the
\* non-empty lines received, one each, with at most the ACK of the line just
\* enqueued outstanding; a received line is on the update queue in the step
\* that receives it, before its ACK; and the outstanding ACK can be written
\* at once, whatever the workers and the queue are doing.
C23_AckPerLineInOrder ==
    /\ [](\A c \in SensorConns :
            LET s == sensor[c]
            IN  /\ Len(s.acks) = Len(s.lines) - (IF s.pc = "ack" THEN 1 ELSE 0)
                /\ \A i \in 1..Len(s.acks) : s.acks[i] = s.lines[i].seq
                /\ s.pc = "ack" => ENABLED SensorAck(c))
    /\ [][\A c \in SensorConns :
            /\ Len(sensor'[c].lines) > Len(sensor[c].lines)
                  => /\ sensor'[c].acks = sensor[c].acks
                     /\ update_queue' =
                           Append(update_queue,
                                  sensor'[c].lines[Len(sensor'[c].lines)])
            /\ Len(sensor'[c].acks) > Len(sensor[c].acks)
                  => /\ sensor[c].pc = "ack"
                     /\ Len(sensor'[c].acks) = Len(sensor[c].acks) + 1]_vars

\* a connection has its ACK for an UPDATE of the unregistered lot B, and an
\* ACK was written for a line that still waits on the update queue
C23_Witness ==
    /\ \E c \in SensorConns :
          \E i \in 1..Len(sensor[c].acks) : UnknownLotUpdate(sensor[c].lines[i])
    /\ \E c \in SensorConns :
          \E i \in 1..Len(sensor[c].acks) :
             \E j \in 1..Len(update_queue) :
                update_queue[j].seq = sensor[c].acks[i]

\* the handler of the RPC connection reads request req in this step
RpcServes(req) ==
    /\ rpc.open
    /\ rpc.inbox # <<>>
    /\ Head(rpc.inbox) = req
    /\ Len(rpc'.served) = Len(rpc.served) + 1

\* the response written in this step, if one is
RpcAnswered == Len(rpc'.answers) = Len(rpc.answers) + 1
RpcAnswer == rpc'.answers[Len(rpc'.answers)]

\* C24: a subscribe or unsubscribe request on the RPC channel, whatever its
\* arguments, is answered with a non-null error and a null result, and the
\* step leaves the subscriber registry, the Subscriber objects and next_sub_id
\* as they were.
C24_PubSubMethodsRefusedOnRpc ==
    [][\A m \in {"subscribe", "unsubscribe"}, a \in RpcArgs, la \in BOOLEAN,
         id \in 1..(MaxSubmits + 1) :
          RpcServes(Request("object", id, m, a, la))
             => /\ RpcAnswered
                /\ RpcAnswer.error # NoError
                /\ RpcAnswer.kind = "null"
                /\ registry' = registry
                /\ subs' = subs
                /\ next_sub_id' = next_sub_id]_vars

\* both a subscribe and an unsubscribe were answered on the RPC connection
C24_Witness ==
    /\ \E i \in 1..Len(rpc.answers) :
          rpc.answers[i].error = "Use pub/sub connection for subscribe"
    /\ \E i \in 1..Len(rpc.answers) :
          rpc.answers[i].error = "Use pub/sub connection for unsubscribe"

\* C25: for a registered lot l and plate p, an RPC reserve answers true
\* exactly when the text RESERVE run in the same state would answer OK, an RPC
\* cancel answers true exactly when the text CANCEL would answer OK,
\* getAvailability answers the number AVAIL would print, and the lot is left
\* in the state the text command would leave it in.
C25_RpcMatchesText ==
    [][\A id \in 1..(MaxSubmits + 1), l \in lots :
          /\ RpcServes(Request("object", id, "reserve", <<l, "P1">>, TRUE))
                => /\ RpcAnswered /\ RpcAnswer.error = NoError
                   /\ RpcAnswer.kind = "bool"
                   /\ RpcAnswer.flag
                         <=> ENABLED (CallReserve(l, "P1") /\ ret'.status = "OK")
                   /\ ~RpcAnswer.flag
                         <=> ENABLED (CallReserve(l, "P1")
                                        /\ ret'.status \in {"FULL", "EXISTS"})
                   /\ reserve(l, "P1")
          /\ RpcServes(Request("object", id, "cancel", <<l, "P1">>, TRUE))
                => /\ RpcAnswered /\ RpcAnswer.error = NoError
                   /\ RpcAnswer.kind = "bool"
                   /\ RpcAnswer.flag
                         <=> ENABLED (CallCancel(l, "P1") /\ ret'.status = "OK")
                   /\ ~RpcAnswer.flag
                         <=> ENABLED (CallCancel(l, "P1")
                                        /\ ret'.status = "NOT_FOUND")
                   /\ cancel(l, "P1")
          /\ RpcServes(Request("object", id, "getAvailability", <<l>>, TRUE))
                => /\ RpcAnswered /\ RpcAnswer.error = NoError
                   /\ RpcAnswer.kind = "int"
                   /\ \E n \in (0 - MaxCap)..MaxCap :
                         /\ RpcAnswer.num = n
                         /\ ENABLED (CallGetFree(l) /\ ret'.free = n)
                   /\ get_free(l)]_vars

\* the RPC connection has answered false to a reserve of a plate that holds
\* a reservation (EXISTS on the text port) and true to a cancel
C25_Witness ==
    \E i, j \in 1..Len(rpc.answers) :
       /\ i < j
       /\ rpc.answers[i].kind = "bool" /\ ~rpc.answers[i].flag
       /\ rpc.answers[j].kind = "bool" /\ rpc.answers[j].flag
       /\ ret.op = "reserve" /\ ret.status = "OK"
       /\ reservations["A"] = <<>>

\* C26: on the RPC connection every request the handler has read has its
\* response, the responses are in the order of the requests and each carries
\* the id of its request; and a _call_rpc that returned a result or raised the
\* server's error took it from a response with the id of its own request.
C26_OneResponsePerRequestInOrder ==
    /\ Len(rpc.answers) = Len(rpc.served)
    /\ \A i \in 1..Len(rpc.answers) : rpc.answers[i].rpcId = rpc.served[i]
    /\ rpc.outcome.kind \in {"result", "error"}
          => rpc.outcome.resp.rpcId = rpc.outcome.id

\* C27: in every response of the RPC channel and of the pub/sub control
\* channel a non-null error comes with a null result, and a null error comes
\* with the result of a call that succeeded.
C27_ErrorExcludesResult ==
    /\ reply.method # "-"
          => /\ reply.error # NoError => reply.kind = "null"
             /\ reply.error = NoError => reply.kind # "null"
    /\ \A i \in 1..Len(rpc.answers) :
          /\ rpc.answers[i].error # NoError => rpc.answers[i].kind = "null"
          /\ rpc.answers[i].error = NoError => rpc.answers[i].kind # "null"

\* a request that is malformed: the payload does not decode or is no JSON
\* object, the args are no list, or there are too few of them
Malformed(req) ==
    \/ req.shape # "object"
    \/ /\ req.method \in {"getAvailability", "reserve", "cancel"}
       /\ ~req.listArgs \/ Len(req.args) < args_needed(req.method)

\* C28: a malformed request read by the RPC handler is answered with an error
\* response, changes no lot and no subscription, and leaves the connection
\* open for the next request.
C28_MalformedIsRecoverable ==
    [][(/\ rpc.open
        /\ rpc.inbox # <<>>
        /\ Malformed(Head(rpc.inbox))
        /\ Len(rpc'.served) = Len(rpc.served) + 1)
          => /\ RpcAnswered
             /\ RpcAnswer.error # NoError
             /\ RpcAnswer.kind = "null"
             /\ UNCHANGED <<occupied, reservations, brokerVars>>
             /\ rpc'.open]_vars

\* C29: no worker holds a lot's lock and subscriber_lock together; the holder
\* of either lock never waits for anything (a worker inside a lot's lock can
\* run the method's body or leave the block, a worker inside _publish_event
\* can go on with its loop or return), so no state is a deadlock among the
\* locks.
C29_LocksNeverNested ==
    \A w \in Workers :
       /\ ~(lock = w /\ \E l \in lots : lot_lock[l] = w)
       /\ lock = w => ENABLED (PublishOffer(w) \/ PublishEvict(w) \/ PublishReturn(w))
       /\ (\E l \in lots : lot_lock[l] = w)
             => ENABLED (WorkerGetFree(w) \/ WorkerUpdate(w) \/ LotRelease(w))

\* one worker is inside _publish_event holding subscriber_lock while another
\* is inside update_occupancy holding the lock of a lot
C29_Witness ==
    \E w, v \in Workers :
       /\ w # v
       /\ lock = w /\ wpc[w] = "offer"
       /\ \E l \in lots : lot_lock[l] = v /\ wpc[v] = "read"

\* C30: while a thread is inside the lock of one lot, every method of another
\* lot whose lock is free can run at once (get_free, reserve, cancel,
\* update_occupancy, to_dict), and a worker that holds an update for that
\* other lot can enter its lock and apply it.
C30_LotsDoNotSerialize ==
    \A a, b \in lots :
       (a # b /\ lot_lock[a] # NoHolder /\ lot_lock[b] = NoHolder)
          => /\ ENABLED CallGetFree(b)
             /\ ENABLED CallToDict(b)
             /\ ENABLED CallReserve(b, "P1")
             /\ ENABLED CallCancel(b, "P1")
             /\ ENABLED CallUpdate(b, 1)
             /\ \A v \in Workers :
                   (wcmd[v].lot = b /\ wlk[v] = "none" /\ wpc[v] \in {"got", "read"})
                      => /\ ENABLED LotAcquire(v)
                         /\ wpc[v] = "got" => ENABLED WorkerGetFree(v)
                         /\ wpc[v] = "read" => ENABLED WorkerUpdate(v)

\* a worker is still inside update_occupancy of lot A, holding A's lock, and
\* another worker has meanwhile applied the later update of lot B inside B's
\* lock
C30_Witness ==
    \E w, v \in Workers :
       /\ w # v
       /\ lot_lock["A"] = w /\ wlk[w] = "held" /\ wpc[w] = "read"
       /\ wcmd[w].seq = 1
       /\ lot_lock["B"] = v /\ wlk[v] = "done" /\ wpc[v] = "applied"
       /\ applied["B"] = <<2>> /\ applied["A"] = <<>>

\* C34: a reserve for a plate whose reservation has expired and is still in
\* the dictionary never answers EXISTS: it answers OK when a spot is free
\* after the sweep and FULL otherwise; the expired record is removed, and on
\* OK the plate's one reservation expires at the time of this call plus the
\* TTL; every other expired record is removed as well.
C34_ExpiredPlateReservesAgain ==
    [][\A l \in lots, p \in Plates :
         (/\ p \in DOMAIN reservations[l]
          /\ is_expired(reservations[l][p], now)
          /\ CallReserve(l, p)) =>
           LET live == live_plates(reservations[l], now)
               f    == capacity[l] - occupied[l] - Cardinality(live)
           IN  /\ ret'.status = IF f > 0 THEN "OK" ELSE "FULL"
               /\ f > 0 => /\ DOMAIN reservations'[l] = live \cup {p}
                           /\ reservations'[l][p] = now + Timeout
                           /\ reservations'[l][p] > reservations[l][p]
                           /\ ~is_expired(reservations'[l][p], now)
               /\ f <= 0 => DOMAIN reservations'[l] = live
               /\ \A q \in live : reservations'[l][q] = reservations[l][q]]_vars

\* long after the first reservations of the lot could have been made and
\* have expired, a reserve has answered OK on a lot of one spot and the plate
\* holds a reservation counted from the call
C34_Witness ==
    /\ now > Timeout + 1
    /\ ret.op = "reserve" /\ ret.status = "OK" /\ ret.plate = "P1"
    /\ capacity["A"] = 1 /\ occupied["A"] = 0
    /\ reservations["A"] = [q \in {"P1"} |-> now + Timeout]

\* C33: the record to_dict returns is a snapshot of one instant: its occupied
\* is the lot's occupied at the moment get_free is evaluated, and its free is
\* capacity - occupied - the reservations active at that moment, whatever
\* update_occupancy, reserve, cancel and the clock did since to_dict began.
C33_ToDictIsSnapshot ==
    [][(snap # NoSnap /\ snap' = NoSnap) =>
         /\ ret'.op = "to_dict"
         /\ ret'.occ = occupied[snap.lot]
         /\ ret'.free = capacity[snap.lot] - ret'.occ - LiveCount(snap.lot)]_vars

\* to_dict has returned a record counting an active reservation on a lot
\* with a car in it, after a reservation made earlier had expired
C33_Witness ==
    /\ ret.op = "to_dict"
    /\ ret.occ = 1 /\ ret.free = 0
    /\ now > Timeout
    /\ LiveCount("A") = 1

\* a step of a frontend call on a lot (text or RPC), or of the clock
FrontendStep ==
    \/ \E l \in lots : CallGetFree(l) \/ CallToDict(l)
    \/ \E l \in lots, p \in Plates : CallReserve(l, p) \/ CallCancel(l, p)
    \/ RpcServe
    \/ Tick

\* C36: reserve, cancel, get_free and to_dict, called through the text or
\* the RPC frontend, and the expiry of reservations publish nothing: such a
\* step makes no _publish_event call, builds no event and leaves every
\* subscriber queue as it was, also when it changes the lot's free count.
C36_OnlyUpdatesPublish ==
    [][\/ /\ pubCount' = pubCount
          /\ event' = event
          /\ subs' = subs
          /\ lock' = lock
       \/ ~FrontendStep]_vars

\* a subscriber of lot A holds the event of the one sensor update in its
\* queue; a reserve served on the RPC connection since has changed the lot's
\* free count and to_dict was called, and no further event was published
C36_Witness ==
    /\ Len(subs) = 1 /\ subs[1].active
    /\ Len(subs[1].queue) = 1
    /\ pubCount = 1
    /\ \A w \in Workers : wpc[w] = "idle"
    /\ update_queue = <<>>
    /\ ret.op = "to_dict"
    /\ get_free_value("A") # subs[1].queue[1].free
    /\ \E i \in 1..Len(rpc.answers) : rpc.answers[i].kind = "bool" /\ rpc.answers[i].flag

\* C39: once a subscription has been made inactive (unsubscribe returned
\* true), its queue is left alone: no publish enqueues into it and the
\* delivery loop takes no event out of it, so the events that were in the
\* queue at that moment are never delivered.
C39_NothingLeavesQueueAfterUnsubscribe ==
    [][\A s \in DOMAIN subs :
          ~subs[s].active => subs'[s].queue = subs[s].queue]_vars

\* the place of sensor line n among the deltas applied to lot l
AppliedAt(l, n) == CHOOSE i \in 1..Len(applied[l]) : applied[l][i] = n

\* C35: the events of one lot are handed to a subscriber's queue in the order
\* in which their deltas were applied: when a worker enters _publish_event
\* for a lot that an active subscription targets, no other worker still has
\* to publish the event of a delta that was applied to that lot earlier.
C35_PublishInAppliedOrder ==
    [][\A w \in Workers :
         (WorkerPublish(w) /\ targets'[w] # {}) =>
            ~ \E v \in Workers \ {w} :
                 /\ wpc[v] = "applied"
                 /\ wcmd[v].lot = wcmd[w].lot
                 /\ free_changed(old_free[v], new_free[v])
                 /\ AppliedAt(wcmd[v].lot, wcmd[v].seq)
                       < AppliedAt(wcmd[w].lot, wcmd[w].seq)]_vars

\* sensor line n is on update_queue and is an UPDATE for a registered lot
QueuedUpdate(n) ==
    \E i \in 1..Len(update_queue) :
       update_queue[i].seq = n /\ well_formed(update_queue[i])

\* the number of times line n has been applied to lot l
TimesApplied(l, n) ==
    Cardinality({i \in 1..Len(applied[l]) : applied[l][i] = n})

\* C38: under fair scheduling of the workers every UPDATE for a registered
\* lot that was put on update_queue is eventually applied, also when other
\* queued lines are malformed; no line is ever held by two workers, and no
\* line is applied more than once.
C38_EveryUpdateAppliedOnce ==
    /\ [](\A w, v \in Workers :
            (w # v /\ wcmd[w] # NoLine) => wcmd[w].seq # wcmd[v].seq)
    /\ [](\A l \in lots, n \in 1..accepted : TimesApplied(l, n) <= 1)
    /\ \A n \in 1..MaxSubmits :
          QueuedUpdate(n) ~> (\E l \in lots : TimesApplied(l, n) = 1)

\* the connection sent a malformed line and then an UPDATE for lot A: the
\* malformed line was dropped and the UPDATE has been applied once
C38_Witness ==
    /\ accepted = 2
    /\ Len(sensor[1].lines) = 2
    /\ ~well_formed(sensor[1].lines[1])
    /\ well_formed(sensor[1].lines[2])
    /\ update_queue = <<>>
    /\ \A w \in Workers : wpc[w] = "idle"
    /\ applied["A"] = <<2>>

\* the frames written on connection c are responses to requests that created
\* no subscription, then at most one subscribe response, then only events
FramesOrdered(c) ==
    LET f == pconn[c].frames
    IN  \E k \in 0..Len(f) :
           /\ \A i \in 1..k : f[i] = ResponseFrame
           /\ k < Len(f) =>
                 /\ f[k + 1] = SubscribedFrame(pconn[c].sub)
                 /\ pconn[c].sub # 0
                 /\ \A i \in (k + 2)..Len(f) : f[i][1] = "event"

\* the handler of connection c takes a request and processes it
ServesRequest(c) ==
    \/ \E l \in LotIds : ConnSubscribe(c, l)
    \/ \E l \in LotIds, sent \in BOOLEAN : ConnSubscribeUnknown(c, l, sent)
    \/ \E id \in 1..MaxSubmits, sent \in BOOLEAN : ConnUnsubscribe(c, id, sent)

\* C37: on a pub/sub connection the response to the subscribe is written
\* before any event of the subscription and no response follows an event;
\* a connection that has created a subscription serves no further request,
\* so it never creates a second one; the delivery loop of a subscription
\* runs only after its response was written.
C37_ConnectionFraming ==
    /\ [](\A c \in PubConns : FramesOrdered(c))
    /\ [](\A c \in PubConns :
            (pconn[c].sub # 0 /\ dstate[pconn[c].sub] \notin {"pending", "dead"})
               => SubscribedFrame(pconn[c].sub)
                     \in {pconn[c].frames[i] : i \in 1..Len(pconn[c].frames)})
    /\ [][\A c \in PubConns :
            /\ pconn[c].sub # 0 => pconn'[c].sub = pconn[c].sub
            /\ ServesRequest(c) => pconn[c].sub = 0]_vars

\* a connection got the response to a request that created no subscription,
\* then subscribed, and the one event published so far has been written on
\* it behind the subscribe response
C37_Witness ==
    \E c \in PubConns :
       /\ pconn[c].sub # 0
       /\ pconn[c].frames = <<ResponseFrame, SubscribedFrame(pconn[c].sub),
                              <<"event", 1>>>>
       /\ pubCount = 1
       /\ reply.method = "subscribe" /\ reply.num = pconn[c].sub

\* the event frames written on connection c so far
EventFrames(c) ==
    {pconn[c].frames[i] : i \in {j \in 1..Len(pconn[c].frames) :
                                   pconn[c].frames[j][1] = "event"}}

\* C31: with a subscription for the lot registered and active on a working
\* connection, a sensor delta that is applied and changes the lot's free
\* count is followed by an event frame on that connection: a frame of an
\* event published after the delta was applied is eventually written.
C31_ChangeIsDelivered ==
    \A w \in Workers, k \in 0..MaxSubmits :
       (/\ wpc[w] = "applied"
        /\ before_free[w] # new_free[w]
        /\ pubCount = k
        /\ \E c \in PubConns :
              /\ pconn[c].sub \in registry
              /\ matches(subs[pconn[c].sub], wcmd[w].lot))
          ~> (\E c \in PubConns : \E f \in EventFrames(c) : f[2] > k)

\* C32: after shutdown was requested a worker stops only between two lines
\* and a delivery loop only between two events: a worker whose thread has
\* stopped holds no line it dequeued and did not finish, and a delivery loop
\* that has stopped holds no event it dequeued and did not write.
C32_StopsBetweenItems ==
    /\ \A w \in Workers :
          wpc[w] \in {"stopped", "killed"} => wcmd[w] = NoLine
    /\ \A s \in DOMAIN subs :
          dstate[s] \in {"ended", "killed"} => inflight[s] = NoEvent

====
